---- MODULE Spec2Model ----
(***************************************************************************)
(* A model of cbor++ (src/cbor++.h): the item head codec (namespace ih),   *)
(* the integer codec (codec::encode / data_item::get), the navigation      *)
(* cursor (codec::itr__, data_item::next) and the in-place mutations of    *)
(* the codec facade and the array view.                                    *)
(*                                                                         *)
(* The storage S is a sequence of bytes (0..255); a data iterator is a     *)
(* 1-based index into it, Len(buf)+1 being std::end(s_).  A 64-bit         *)
(* argument is the sequence of its 8 bytes, most significant first, which  *)
(* is also how write_be / read_be lay it out; the integer conversions of   *)
(* the code are the truncations and extensions of these byte sequences.    *)
(***************************************************************************)
EXTENDS Integers, Sequences, FiniteSets, TLC

VARIABLES
    buf,    \* codec::s_, the caller's storage
    it,     \* the item cursor (codec::itr__) the caller holds
    view,   \* array_item::it_ of the array view the caller holds, or NoView
    ops,    \* number of mutating calls made so far (bounds the exploration)
    call,   \* the last call: its name, the storage before it, its arguments, its outcome
    debug,  \* CBORXX_ASSERT is active: the build defines CBORXX_DEBUG and not NDEBUG
    ndebug  \* the build defines NDEBUG: assert expands to nothing

vars == <<buf, it, view, ops, call, debug, ndebug>>

\* ------------------------------------------------------------------------
\* Outcomes of a call: a value, or the exception it raised.
\*   std::runtime_error("invalid additional information")  MalformedHead
\*   std::runtime_error("indefinite argument")             UnsupportedFeature
\*   std::runtime_error("item is not ...")                 WrongKind
\*   std::range_error("integer overflow")                  Overflow
\*   std::runtime_error("float16 not supported")           UnsupportedFeature
\*   std::runtime_error("extended special types ...")      UnsupportedFeature
\*   std::runtime_error("invalid special type")            InvalidSpecial
\*   std::range_error("lossy float conversion")            LossyConversion
\*   std::invalid_argument("tag value is invalid")         InvalidTagValue
\*   assert(...) failing                                   Abort
\*   a read outside the storage (undefined)                OutOfBounds
Ok(x) == [err |-> "none", v |-> x]
Err(e) == [err |-> e, v |-> <<>>]
IsOk(r) == r.err = "none"

\* the member of a singleton: Only({F(x) : x \in {e}}) is F(e), e computed once
Only(S) == CHOOSE x \in S : TRUE

\* ------------------------------------------------------------------------
\* Fixed width unsigned values as big-endian byte sequences.

Byte == 0..255

\* the 8 bytes of a natural number below 2^31
U64of(n) ==
    <<0, 0, 0, 0, (n \div 16777216) % 256, (n \div 65536) % 256, (n \div 256) % 256, n % 256>>

\* a < b, a <= b for byte sequences of one length
LtU(a, b) ==
    \E i \in 1..Len(a) : a[i] < b[i] /\ \A j \in 1..(i - 1) : a[j] = b[j]

LeU(a, b) == a = b \/ LtU(a, b)

\* the value fits a TLC integer (it is below 2^31)
IsSmall(a) == a[1] = 0 /\ a[2] = 0 /\ a[3] = 0 /\ a[4] = 0 /\ a[5] < 128

ToNat(a) == a[5] * 16777216 + a[6] * 65536 + a[7] * 256 + a[8]

\* conversion to a narrower unsigned or signed type keeps the low w bytes
Low(a, w) == SubSeq(a, Len(a) - w + 1, Len(a))

\* conversion of an unsigned / a signed value to 64 bits
ZeroExt(b) == [i \in 1..(8 - Len(b)) |-> 0] \o b
SignExt(b) == [i \in 1..(8 - Len(b)) |-> IF b[1] >= 128 THEN 255 ELSE 0] \o b

\* -1 - x in two's complement: every bit inverted
Not(b) == [i \in 1..Len(b) |-> 255 - b[i]]

INT64_MAX == <<127, 255, 255, 255, 255, 255, 255, 255>>
INT64_MIN == <<128, 0, 0, 0, 0, 0, 0, 0>>
UINT64_MAX == <<255, 255, 255, 255, 255, 255, 255, 255>>
UINT32_MAX == <<0, 0, 0, 0, 255, 255, 255, 255>>
UINT16_MAX == <<0, 0, 0, 0, 0, 0, 255, 255>>
UINT8_MAX == <<0, 0, 0, 0, 0, 0, 0, 255>>

\* ------------------------------------------------------------------------
\* namespace ih

posint == 0
negint == 1
bytes == 2
utf8 == 3
array == 4
map == 5
tag == 6
special == 7

Majors == {posint, negint, bytes, utf8, array, map, tag, special}

\* ih::make(major, ai): one head byte
make_byte(m, a) == m * 32 + a

\* ih::make(major, Arg, span): the shortest head for argument a
make_boundary_mutant(m, a) ==
    IF LeU(a, U64of(24)) THEN <<make_byte(m, a[8])>>
    ELSE IF LeU(a, UINT8_MAX) THEN <<make_byte(m, 24), a[8]>>
    ELSE IF LeU(a, UINT16_MAX) THEN <<make_byte(m, 25)>> \o Low(a, 2)
    ELSE IF LeU(a, UINT32_MAX) THEN <<make_byte(m, 26)>> \o Low(a, 4)
    ELSE <<make_byte(m, 27)>> \o a

make(m, a) ==
    IF LeU(a, U64of(23)) THEN <<make_byte(m, a[8])>>
    ELSE IF LeU(a, UINT8_MAX) THEN <<make_byte(m, 24), a[8]>>
    ELSE IF LeU(a, UINT16_MAX) THEN <<make_byte(m, 25)>> \o Low(a, 2)
    ELSE IF LeU(a, UINT32_MAX) THEN <<make_byte(m, 26)>> \o Low(a, 4)
    ELSE <<make_byte(m, 27)>> \o a

get_major(b, p) == b[p] \div 32

get_ai(b, p) == b[p] % 32

get_arg_size(b, p) ==
    LET ai == get_ai(b, p)
    IN  IF ai <= 23 THEN Ok(0)
        ELSE IF ai = 24 THEN Ok(1)
        ELSE IF ai = 25 THEN Ok(2)
        ELSE IF ai = 26 THEN Ok(4)
        ELSE IF ai = 27 THEN Ok(8)
        ELSE IF ai <= 30 THEN Err("MalformedHead")
        ELSE Ok(0)

get_ih_size(b, p) ==
    LET n == get_arg_size(b, p)
    IN  IF IsOk(n) THEN Ok(1 + n.v) ELSE n

\* read_be<T>(p + 1): the w bytes after the head byte
read_be(b, p, w) ==
    IF p + w > Len(b) THEN Err("OutOfBounds")
    ELSE Ok(ZeroExt(SubSeq(b, p + 1, p + w)))

get_arg(b, p) ==
    LET ai == get_ai(b, p)
    IN  IF ai <= 23 THEN Ok(U64of(ai))
        ELSE IF ai = 24 THEN read_be(b, p, 1)
        ELSE IF ai = 25 THEN read_be(b, p, 2)
        ELSE IF ai = 26 THEN read_be(b, p, 4)
        ELSE IF ai = 27 THEN read_be(b, p, 8)
        ELSE IF ai <= 30 THEN Err("MalformedHead")
        ELSE Err("UnsupportedFeature")

get_data_size(b, p) ==
    IF get_major(b, p) \in {bytes, utf8} THEN get_arg(b, p) ELSE Ok(U64of(0))

\* a + n in uint64_t, for n below 256
AddU64(a, n) ==
    [i \in 1..8 |->
        IF i = 8 THEN (a[8] + n) % 256
        ELSE IF a[8] + n >= 256 /\ \A j \in (i + 1)..7 : a[j] = 255
        THEN (a[i] + 1) % 256
        ELSE a[i]]

\* ih::get_size: get_ih_size(p) + get_data_size(p), in uint64_t
get_size_u64(b, p) ==
    LET h == get_ih_size(b, p)
        d == get_data_size(b, p)
    IN  IF ~IsOk(h) THEN h
        ELSE IF ~IsOk(d) THEN d
        ELSE Ok(AddU64(d.v, h.v))

\* the step of "data_ + ih::get_size(data_)": the uint64_t converted to the
\* iterator's difference_type, so a size of 2^63 or more is a step backwards;
\* a step of 2^31 bytes or more leaves every storage of the model
get_size(b, p) ==
    LET s == get_size_u64(b, p)
    IN  IF ~IsOk(s) THEN s
        ELSE IF IsSmall(s.v) THEN Ok(ToNat(s.v))
        ELSE IF IsSmall(Not(s.v)) THEN Ok(0 - ToNat(Not(s.v)) - 1)
        ELSE Err("OutOfBounds")

\* ------------------------------------------------------------------------
\* Integral types: int8_t .. uint64_t, by signedness and width in bytes.

IntTypes == [signed : BOOLEAN, w : {1, 2, 4, 8}]

\* An integer -2^64 .. 2^64-1 is [neg, mag]: mag when ~neg, -1 - mag when neg.
\* The value of the bits b of type T:
ValueOf(T, b) ==
    IF T.signed /\ b[1] >= 128
    THEN [neg |-> TRUE, mag |-> ZeroExt(Not(b))]
    ELSE [neg |-> FALSE, mag |-> ZeroExt(b)]

\* std::numeric_limits<T>::max()
MaxOf(T) ==
    ZeroExt([i \in 1..T.w |-> IF i = 1 /\ T.signed THEN 127 ELSE 255])

\* codec::encode(p, T v), integral, for a v whose "-v - 1" is defined (or in
\* a build where signed arithmetic wraps): the head appended
encode_int_bytes(T, b) ==
    IF T.signed /\ b[1] >= 128
    THEN make(negint, ZeroExt(Not(b)))
    ELSE make(posint, ZeroExt(b))

\* codec::encode(p, T v), integral: the outcomes.  "-v - 1" is computed in T
\* promoted to at least int; for v the minimum of a type of 4 or 8 bytes the
\* negation overflows, which is undefined: the build either wraps (and the
\* result is the bit inversion of v) or traps.
encode_int(T, b) ==
    IF T.signed /\ T.w >= 4 /\ b = [i \in 1..T.w |-> IF i = 1 THEN 128 ELSE 0]
    THEN {Ok(encode_int_bytes(T, b)), Err("Abort")}
    ELSE {Ok(encode_int_bytes(T, b))}

\* data_item::get<T>, posint branch
get_posint(T, a) ==
    LET v == Low(a, T.w)
        wide == IF T.signed THEN SignExt(v) ELSE ZeroExt(v)
    IN  IF wide # a THEN Err("Overflow") ELSE Ok(ValueOf(T, v))

\* data_item::get<T>, negint branch
get_negint_unchecked(T, a) ==
    LET x == Not(a)
        v == Low(x, T.w)
        wide == IF T.signed THEN SignExt(v) ELSE ZeroExt(v)
    IN  IF wide # x THEN Err("Overflow") ELSE Ok(ValueOf(T, v))

get_negint(T, a) ==
    IF LtU(INT64_MAX, a) THEN Err("Overflow")
    ELSE LET x == Not(a)
             v == Low(x, T.w)
             wide == IF T.signed THEN SignExt(v) ELSE ZeroExt(v)
         IN  IF wide # x THEN Err("Overflow") ELSE Ok(ValueOf(T, v))

\* data_item::get<T>, T integral and not bool, of the item at p
get_int(T, b, p) ==
    LET m == get_major(b, p)
        a == get_arg(b, p)
    IN  IF m \notin {posint, negint} THEN Err("WrongKind")
        ELSE IF ~IsOk(a) THEN a
        ELSE IF m = posint THEN get_posint(T, a.v)
        ELSE get_negint(T, a.v)

\* std::numeric_limits<int32_t>::max()
INT32_MAX == U64of(2147483647)

\* (type() with ">=" for ">" at the int32 boundary of a posint)
item_type_boundary_mutant(b, p) ==
    LET m == get_major(b, p)
        sz == get_arg_size(b, p)
        val == get_arg(b, p)
        ai == get_ai(b, p)
    IN  IF m \in {posint, negint}
        THEN IF ~IsOk(sz) THEN sz
             ELSE IF ~IsOk(val) THEN val
             ELSE IF sz.v < 4 THEN Ok("int32")
             ELSE IF m = posint
             THEN IF sz.v = 4
                  THEN Ok(IF LeU(INT32_MAX, val.v) THEN "uint32" ELSE "int32")
                  ELSE Ok(IF LtU(INT64_MAX, val.v) THEN "uint64" ELSE "int64")
             ELSE Ok(IF LtU(INT32_MAX, val.v) THEN "int64" ELSE "int32")
        ELSE IF m = bytes THEN Ok("bytes")
        ELSE IF m = utf8 THEN Ok("string")
        ELSE IF m = array THEN Ok("array")
        ELSE IF m = map THEN Ok("map")
        ELSE IF m = tag THEN Ok("tag")
        ELSE IF ai \in {20, 21} THEN Ok("boolean")
        ELSE IF ai = 22 THEN Ok("null")
        ELSE IF ai = 23 THEN Ok("undefined")
        ELSE IF ai = 24 THEN Err("UnsupportedFeature")
        ELSE IF ai \in {25, 26} THEN Ok("fp32")
        ELSE IF ai = 27 THEN Ok("fp64")
        ELSE IF ai = 31 THEN Ok("indefinite_break")
        ELSE Err("InvalidSpecial")

\* data_item::type of the item at p
item_type(b, p) ==
    LET m == get_major(b, p)
        sz == get_arg_size(b, p)
        val == get_arg(b, p)
        ai == get_ai(b, p)
    IN  IF m \in {posint, negint}
        THEN IF ~IsOk(sz) THEN sz
             ELSE IF ~IsOk(val) THEN val
             ELSE IF sz.v < 4 THEN Ok("int32")
             ELSE IF m = posint
             THEN IF sz.v = 4
                  THEN Ok(IF LtU(INT32_MAX, val.v) THEN "uint32" ELSE "int32")
                  ELSE Ok(IF LtU(INT64_MAX, val.v) THEN "uint64" ELSE "int64")
             ELSE Ok(IF LtU(INT32_MAX, val.v) THEN "int64" ELSE "int32")
        ELSE IF m = bytes THEN Ok("bytes")
        ELSE IF m = utf8 THEN Ok("string")
        ELSE IF m = array THEN Ok("array")
        ELSE IF m = map THEN Ok("map")
        ELSE IF m = tag THEN Ok("tag")
        ELSE IF ai \in {20, 21} THEN Ok("boolean")
        ELSE IF ai = 22 THEN Ok("null")
        ELSE IF ai = 23 THEN Ok("undefined")
        ELSE IF ai = 24 THEN Err("UnsupportedFeature")
        ELSE IF ai \in {25, 26} THEN Ok("fp32")
        ELSE IF ai = 27 THEN Ok("fp64")
        ELSE IF ai = 31 THEN Ok("indefinite_break")
        ELSE Err("InvalidSpecial")

\* ------------------------------------------------------------------------
\* codec::itr__: (data_, cont_, idx_).  A cursor operation returns Ok(cursor)
\* or the error that ended it.

It(d, c, i) == [data |-> d, cont |-> c, idx |-> i]

NoView == It(0, 0, 0)

\* codec::begin
begin == It(1, 0, 0)

\* itr__::enter_container
enter_container(b, i) ==
    Only({IF IsOk(s) THEN Ok(It(i.data + s.v, i.cont + 1, 0)) ELSE s :
              s \in {get_size(b, i.data)}})

\* itr__::next_item
next_item(b, i) ==
    Only({IF IsOk(s) THEN Ok(It(i.data + s.v, i.cont, i.idx + 1)) ELSE s :
              s \in {get_size(b, i.data)}})

\* array_item::size
array_size(b, i) ==
    LET n == get_arg(b, i.data)
    IN  IF ~IsOk(n) THEN n
        ELSE IF ~IsSmall(n.v) THEN Err("OutOfBounds")
        ELSE Ok(ToNat(n.v))

RECURSIVE item_next(_, _), codec_next(_, _, _), array_end(_, _)

\* data_item::next.  An array is skipped by array_item(it_).end(), a tag by
\* untag().next(); for a map the assert(!"todo") fails, and where assert
\* expands to nothing control falls into the tag case, whose untag() raises.
item_next(b, i) ==
    IF i.data < 1 \/ i.data > Len(b) THEN Err("OutOfBounds")
    ELSE IF get_major(b, i.data) = array THEN array_end(b, i)
    ELSE IF get_major(b, i.data) = map
    THEN IF ndebug THEN Err("WrongKind") ELSE Err("Abort")
    ELSE IF get_major(b, i.data) = tag
    THEN Only({IF IsOk(e) THEN item_next(b, e.v) ELSE e : e \in {enter_container(b, i)}})
    ELSE next_item(b, i)

\* codec::next(it, n): n times it = data_item(it).next().data(), each step
\* behind CBORXX_ASSERT(it.data_ != std::end(s_))
codec_next(b, i, n) ==
    IF n = 0 THEN Ok(i)
    ELSE IF debug /\ i.data = Len(b) + 1 THEN Err("Abort")
    ELSE Only({IF IsOk(r) THEN codec_next(b, r.v, n - 1) ELSE r :
                    r \in {item_next(b, i)}})

\* codec::prev, the loop "while (tmp.cont_ != it.cont_) tmp = tmp.next_item()":
\* next_item keeps cont_, so for a cursor of cont_ c > 0 the loop runs until it
\* reads a head past the end of the storage, which is undefined ("OutOfBounds")
RECURSIVE prev_scope(_, _, _)
prev_scope(b, tmp, c) ==
    IF tmp.cont = c THEN Ok(tmp)
    ELSE IF tmp.data < 1 \/ tmp.data > Len(b) THEN Err("OutOfBounds")
    ELSE Only({IF IsOk(r) THEN prev_scope(b, r.v, c) ELSE r : r \in {next_item(b, tmp)}})

\* codec::prev(it, n) behind CBORXX_ASSERT(n <= it.idx_); for n > it.idx_
\* the unsigned it.idx_ - n wraps and next() walks past the end of the storage
codec_prev(b, i, n) ==
    IF debug /\ ~(n <= i.idx) THEN Err("Abort")
    ELSE IF n > i.idx THEN Err("OutOfBounds")
    ELSE Only({IF IsOk(t) THEN codec_next(b, t.v, i.idx - n) ELSE t :
                    t \in {prev_scope(b, begin, i.cont)}})

\* array_item::end: it_.enter_container() + size()
array_end(b, i) ==
    Only({IF ~IsOk(e) THEN e
          ELSE IF ~IsOk(n) THEN n
          ELSE codec_next(b, e.v, n.v) :
              e \in {enter_container(b, i)}, n \in {array_size(b, i)}})

\* while (i--) it = data_item(it).next().data()
RECURSIVE index_walk(_, _, _)
index_walk(b, i, n) ==
    IF n = 0 THEN Ok(i)
    ELSE Only({IF IsOk(r) THEN index_walk(b, r.v, n - 1) ELSE r :
                    r \in {item_next(b, i)}})

\* array_item::operator[], behind CBORXX_ASSERT(i < size())
array_index(b, i, k) ==
    Only({IF debug /\ ~IsOk(n) THEN n
          ELSE IF debug /\ ~(k < n.v) THEN Err("Abort")
          ELSE IF ~IsOk(e) THEN e
          ELSE index_walk(b, e.v, k) :
              e \in {enter_container(b, i)}, n \in {array_size(b, i)}})

\* codec::size: ++it from begin() until it.data_ is std::end(s_); it.idx_.
\* Where ++it leaves data_ depends on data_ alone, so a loop that comes to a
\* data_ it has been at (seen) never ends: "NoReturn".
RECURSIVE size_walk(_, _, _)
size_walk(b, i, seen) ==
    IF i.data = Len(b) + 1 THEN Ok(i.idx)
    ELSE IF i.data < 1 \/ i.data > Len(b) + 1 THEN Err("OutOfBounds")
    ELSE IF i.data \in seen THEN Err("NoReturn")
    ELSE Only({IF IsOk(r) THEN size_walk(b, r.v, seen \cup {i.data}) ELSE r :
                    r \in {item_next(b, i)}})

codec_size(b) == size_walk(b, begin, {})

\* codec::operator[], behind CBORXX_ASSERT(i < size())
codec_index(b, k) ==
    Only({IF ~IsOk(n) THEN n
          ELSE IF debug /\ ~(k < n.v) THEN Err("Abort")
          ELSE codec_next(b, begin, k) :
              n \in {IF debug THEN codec_size(b) ELSE Ok(0)}})

\* codec::empty
codec_empty(b) == b = <<>>

\* itr__::operator== and operator<=> of two cursors of one codec: c_ is set
\* and c_ == r.c_, which is all that CBORXX_ASSERT tests; the result compares
\* data_ (-1, 0, 1 for less, equal, greater)
itr_equal(i, r) == Ok(i.data = r.data)

itr_order(i, r) == Ok(IF i.data < r.data THEN -1 ELSE IF i.data = r.data THEN 0 ELSE 1)

\* itr__::operator-(const itr__ &r) of two cursors of one codec
itr_difference(i, r) ==
    IF debug /\ i.cont # r.cont THEN Err("Abort") ELSE Ok(i.idx - r.idx)

\* data_item::get_array
get_array(b, i) ==
    IF get_major(b, i.data) # array THEN Err("WrongKind") ELSE Ok(i)

\* data_item::get_tag
get_tag(b, i) ==
    IF get_major(b, i.data) # tag THEN Err("WrongKind") ELSE get_arg(b, i.data)

\* data_item::untag
untag(b, i) ==
    IF get_major(b, i.data) # tag THEN Err("WrongKind") ELSE enter_container(b, i)

\* ------------------------------------------------------------------------
\* cbor::item, the value given to an encoder: [k, a, items].
\*   k = "int":    a the 8 bytes of an int64_t
\*   k = "null"
\*   k = "text":   items the bytes of the string_view
\*   k = "array":  items the elements (array::init_)
\*   k = "map":    items the keys and values in turn (map::init_, flattened)
\*   k = "tagged": a the tag (tagged::tag_), items the one element item_

Val(k, a, items) == [k |-> k, a |-> a, items |-> items]

IntV(n) == Val("int", U64of(n), <<>>)
Null == Val("null", U64of(0), <<>>)
Text(s) == Val("text", U64of(0), s)
Arr(items) == Val("array", U64of(0), items)
Map(items) == Val("map", U64of(0), items)
Tagged(t, v) == Val("tagged", t, <<v>>)

\* (the check of encode(tagged) without tag::invalid_3)
InvalidTagsWithoutThird == {UINT16_MAX, UINT32_MAX}

\* tag::invalid_1, invalid_2, invalid_3
InvalidTags == {UINT16_MAX, UINT32_MAX, UINT64_MAX}

\* An encoder appends to the storage as it goes, so what it has appended stays
\* there when an element raises: [ok, bytes] is whether it returned, and the
\* bytes it appended.
RECURSIVE encode(_), encode_sequence(_)

\* (encode with a map head that counts keys and values)
encode_map_counts_items(v) ==
    CASE v.k = "int" -> [ok |-> TRUE, bytes |-> encode_int_bytes([signed |-> TRUE, w |-> 8], v.a)]
      [] v.k = "null" -> [ok |-> TRUE, bytes |-> <<make_byte(special, 22)>>]
      [] v.k = "text" -> [ok |-> TRUE, bytes |-> make(utf8, U64of(Len(v.items))) \o v.items]
      [] v.k = "array" ->
            Only({[ok |-> r.ok, bytes |-> make(array, U64of(Len(v.items))) \o r.bytes] :
                      r \in {encode_sequence(v.items)}})
      [] v.k = "map" ->
            Only({[ok |-> r.ok, bytes |-> make(map, U64of(Len(v.items))) \o r.bytes] :
                      r \in {encode_sequence(v.items)}})
      [] v.k = "tagged" ->
            IF v.a \in InvalidTags THEN [ok |-> FALSE, bytes |-> <<>>]
            ELSE Only({[ok |-> r.ok, bytes |-> make(tag, v.a) \o r.bytes] :
                           r \in {encode(v.items[1])}})

\* codec::encode(p, v) for each alternative of item (encode_item visits it)
encode(v) ==
    CASE v.k = "int" -> [ok |-> TRUE, bytes |-> encode_int_bytes([signed |-> TRUE, w |-> 8], v.a)]
      [] v.k = "null" -> [ok |-> TRUE, bytes |-> <<make_byte(special, 22)>>]
      [] v.k = "text" -> [ok |-> TRUE, bytes |-> make(utf8, U64of(Len(v.items))) \o v.items]
      [] v.k = "array" ->
            Only({[ok |-> r.ok, bytes |-> make(array, U64of(Len(v.items))) \o r.bytes] :
                      r \in {encode_sequence(v.items)}})
      [] v.k = "map" ->
            Only({[ok |-> r.ok, bytes |-> make(map, U64of(Len(v.items) \div 2)) \o r.bytes] :
                      r \in {encode_sequence(v.items)}})
      [] v.k = "tagged" ->
            IF v.a \in InvalidTags THEN [ok |-> FALSE, bytes |-> <<>>]
            ELSE Only({[ok |-> r.ok, bytes |-> make(tag, v.a) \o r.bytes] :
                           r \in {encode(v.items[1])}})

\* codec::encode_sequence(p, a...): the values in order, up to the first that
\* raises (computed by halves: the bytes of the first half, then the second's)
encode_sequence(vs) ==
    IF vs = <<>> THEN [ok |-> TRUE, bytes |-> <<>>]
    ELSE IF Len(vs) = 1 THEN Only({encode(v) : v \in {vs[1]}})
    ELSE Only({Only({IF ~l.ok THEN l ELSE [ok |-> r.ok, bytes |-> l.bytes \o r.bytes] :
                         l \in {encode_sequence(a)}, r \in {encode_sequence(c)}}) :
                   a \in {SubSeq(vs, 1, Len(vs) \div 2)},
                   c \in {SubSeq(vs, Len(vs) \div 2 + 1, Len(vs))}})

EncodeResult(r) == IF r.ok THEN Ok(<<>>) ELSE Err("InvalidTagValue")

\* ------------------------------------------------------------------------
\* The storage S (std::vector<std::byte>) and the mutations.

\* S::insert(pos, first, last)
Insert(b, p, x) == SubSeq(b, 1, p - 1) \o x \o SubSeq(b, p, Len(b))

\* S::erase(first, last)
EraseRange(b, p, q) == SubSeq(b, 1, p - 1) \o SubSeq(b, q, Len(b))

\* std::copy(begin(v), end(v), it)
CopyAt(b, p, x) ==
    [j \in 1..Len(b) |-> IF j >= p /\ j < p + Len(x) THEN x[j - p + 1] ELSE b[j]]

\* (replace that copies over the old bytes and never erases)
replace_range_no_erase(b, p, sz, x) ==
    LET g == IF sz >= Len(x) THEN b
             ELSE Insert(b, p, [j \in 1..(Len(x) - sz) |-> 0])
    IN  [buf |-> CopyAt(g, p, x), it |-> p, sz |-> Len(x)]

\* codec::replace(data_range p, span v): [buf, it, sz]
replace_range(b, p, sz, x) ==
    LET g == IF sz = Len(x) THEN b
             ELSE IF sz < Len(x) THEN Insert(b, p, [j \in 1..(Len(x) - sz) |-> 0])
             ELSE EraseRange(b, p, p + (sz - Len(x)))
    IN  [buf |-> CopyAt(g, p, x), it |-> p, sz |-> Len(x)]

\* codec::set_ih_arg(data_range p, arg): [buf, it, sz]
set_ih_arg_stale_size(b, p, sz, a) ==
    LET n == make(get_major(b, p), a)
        osz == get_ih_size(b, p).v
        r == replace_range(b, p, osz, n)
    IN  [buf |-> r.buf, it |-> r.it, sz |-> sz]

set_ih_arg(b, p, sz, a) ==
    LET n == make(get_major(b, p), a)
        osz == get_ih_size(b, p).v
        r == replace_range(b, p, osz, n)
    IN  [buf |-> r.buf, it |-> r.it, sz |-> sz - osz + r.sz]

\* (push_back writing at std::begin(s_))
codec_push_front(b, vs) == encode_sequence(vs).bytes \o b

\* codec::push_back(v...): encode_sequence at std::end(s_)
codec_push_back(b, vs) == b \o encode_sequence(vs).bytes

\* array_item::push_back(v...) through the view at cursor i, whose end() is e
\* and size() is n: [buf, it]
array_push_back(b, i, e, n, vs) ==
    LET p == set_ih_arg(b, i.data, e.data - i.data, U64of(n + Len(vs)))
        r == encode_sequence(vs)
    IN  [buf |-> Insert(p.buf, p.it + p.sz, r.bytes),
         it |-> IF r.ok THEN It(p.it, i.cont, i.idx) ELSE i]

\* codec::erase(b, e)
codec_erase(b, i, e) == EraseRange(b, i.data, e.data)

\* codec::replace(p, v), v a cursor of this codec whose next is ve, p's next pe
replace_copy_no_erase(b, i, pe, v, ve) ==
    LET tmp == SubSeq(b, v.data, ve.data - 1)
    IN  Insert(b, i.data, tmp)

codec_replace_copy(b, i, pe, v, ve) ==
    LET tmp == SubSeq(b, v.data, ve.data - 1)
    IN  Insert(codec_erase(b, i, pe), i.data, tmp)

\* codec::replace(p, const item &v)
codec_replace_item(b, i, pe, v) ==
    Insert(codec_erase(b, i, pe), i.data, encode(v).bytes)

\* ------------------------------------------------------------------------
\* The data model of the format (RFC 8949, spec section 3), independent of the
\* cursor code: where the complete item that starts at p ends.  0 stands for
\* "no complete item starts at p".

RefArgWidth(b, p) ==
    LET ai == b[p] % 32
    IN  CASE ai <= 23 -> 0 [] ai = 24 -> 1 [] ai = 25 -> 2 [] ai = 26 -> 4
          [] ai = 27 -> 8 [] OTHER -> -1

\* the head's size, 0 when it is reserved, indefinite or cut short
RefHeadLen(b, p) ==
    LET w == RefArgWidth(b, p)
    IN  IF w < 0 \/ p + w > Len(b) THEN 0 ELSE 1 + w

\* the head's argument, -1 when it is 2^31 or more
RefArg(b, p) ==
    LET w == RefArgWidth(b, p)
        a == ZeroExt(SubSeq(b, p + 1, p + w))
    IN  IF w = 0 THEN b[p] % 32
        ELSE IF IsSmall(a) THEN ToNat(a) ELSE -1

RECURSIVE RefEnd(_, _), RefSkip(_, _, _)

RefEnd(b, p) ==
    IF p < 1 \/ p > Len(b) THEN 0
    ELSE LET m == b[p] \div 32
             h == RefHeadLen(b, p)
             a == RefArg(b, p)
         IN  IF h = 0 THEN 0
             ELSE IF m \in {posint, negint, special} THEN p + h
             ELSE IF a < 0 THEN 0
             ELSE IF m \in {bytes, utf8}
             THEN IF p + h + a <= Len(b) + 1 THEN p + h + a ELSE 0
             ELSE IF m = tag THEN RefEnd(b, p + h)
             ELSE RefSkip(b, p + h, IF m = array THEN a ELSE 2 * a)

\* the position after the n complete items that start at p
RefSkip(b, p, n) ==
    IF n = 0 THEN p
    ELSE LET e == RefEnd(b, p)
         IN  IF e = 0 THEN 0 ELSE RefSkip(b, e, n - 1)

\* the number of complete items from p to the end of b, -1 when they do not
\* fill it exactly
RECURSIVE RefCountFrom(_, _)
RefCountFrom(b, p) ==
    IF p = Len(b) + 1 THEN 0
    ELSE LET e == RefEnd(b, p)
             r == IF e = 0 THEN -1 ELSE RefCountFrom(b, e)
         IN  IF r < 0 THEN -1 ELSE 1 + r

RefCount(b) == RefCountFrom(b, 1)

WellFormed(b) == RefCount(b) >= 0

\* the n complete items from p hold no map at any depth
RECURSIVE RefMapFree(_, _, _)
RefMapFree(b, p, n) ==
    IF n = 0 THEN TRUE
    ELSE LET m == b[p] \div 32
             h == RefHeadLen(b, p)
         IN  /\ RefEnd(b, p) # 0
             /\ m # map
             /\ m = tag => RefMapFree(b, p + h, 1)
             /\ m = array => RefMapFree(b, p + h, RefArg(b, p))
             /\ RefMapFree(b, RefEnd(b, p), n - 1)

\* ------------------------------------------------------------------------
\* The inputs of the head and integer specifications: for every width the
\* values around every boundary of the code (23/24, the sign bit, all ones),
\* with the leading non-zero byte at every position.

SampleBytes == {0, 1, 23, 24, 127, 128, 255}

Fillers == {0, 255}

Pattern(w, p, h, f, l) ==
    [i \in 1..w |-> IF i < p THEN 0 ELSE IF i = p THEN h ELSE IF i < w THEN f ELSE l]

Samples(w) ==
    {Pattern(w, p, h, f, l) : p \in 1..w, h \in SampleBytes, f \in Fillers, l \in SampleBytes}

Call(o, pre, a, r) == [op |-> o, pre |-> pre, arg |-> a, out |-> r]

Aborted == call.out.err = "Abort"

\* ------------------------------------------------------------------------
\* SpecHead: ih::make and the head decoders as pure functions of (major, arg).

InitHead ==
    /\ buf = <<>>
    /\ it = NoView
    /\ view = NoView
    /\ ops = 0
    /\ debug \in BOOLEAN
    /\ ndebug = FALSE
    /\ call \in {Call("input", <<>>, [m |-> m, a |-> a], Ok(<<>>)) :
                    m \in Majors, a \in Samples(8)}

\* codec::encode_ih on the empty storage: append(p, ih::make(m, arg, tmp))
EncodeIh ==
    /\ call.op = "input"
    /\ buf' = buf \o make(call.arg.m, call.arg.a)
    /\ call' = Call("encode_ih", buf, call.arg, Ok(<<>>))
    /\ UNCHANGED <<debug, ndebug, it, view, ops>>

\* ih::get_major, ih::get_arg and ih::get_ih_size of the head just written
DecodeHead ==
    /\ call.op = "encode_ih"
    /\ call' = Call("decode_head", buf, call.arg,
                    Ok([major |-> get_major(buf, 1),
                        arg |-> get_arg(buf, 1),
                        size |-> get_ih_size(buf, 1)]))
    /\ UNCHANGED <<debug, ndebug, buf, it, view, ops>>

NextHead == EncodeIh \/ DecodeHead

SpecHead == InitHead /\ [][NextHead]_vars

\* ------------------------------------------------------------------------
\* SpecInt: one integer item, written by push_back or supplied by the caller
\* (a codec constructed over existing bytes), and read by get<T>.

InitInt ==
    /\ buf = <<>>
    /\ it = NoView
    /\ view = NoView
    /\ ops = 0
    /\ debug \in BOOLEAN
    /\ ndebug = FALSE
    /\ call = Call("init", <<>>, <<>>, Ok(<<>>))

\* codec::push_back(v) with one integral v of type T on the empty codec
IntPushBack ==
    /\ ~Aborted
    /\ buf = <<>>
    /\ \E T \in IntTypes : \E b \in Samples(T.w) : \E r \in encode_int(T, b) :
          /\ buf' = IF IsOk(r) THEN buf \o r.v ELSE buf
          /\ call' = Call("push_back_int", buf, [T |-> T, b |-> b],
                          IF IsOk(r) THEN Ok(<<>>) ELSE r)
    /\ UNCHANGED <<debug, ndebug, it, view, ops>>

\* codec(S &s) over storage that already holds one integer item
CodecOver ==
    /\ ~Aborted
    /\ buf = <<>>
    /\ \E m \in {posint, negint} : \E a \in Samples(8) :
          /\ buf' = make(m, a)
          /\ call' = Call("codec", buf, <<>>, Ok(<<>>))
    /\ UNCHANGED <<debug, ndebug, it, view, ops>>

\* codec(S &s) over storage that holds one integer item whose head has any
\* of the sizes, the shortest for its argument or not
CodecOverHead ==
    /\ ~Aborted
    /\ buf = <<>>
    /\ \E m \in {posint, negint} : \E w \in {1, 2, 4, 8} : \E a \in Samples(w) :
          /\ buf' = <<make_byte(m, CASE w = 1 -> 24 [] w = 2 -> 25 [] w = 4 -> 26 [] w = 8 -> 27)>> \o a
          /\ call' = Call("codec", buf, <<>>, Ok(<<>>))
    /\ UNCHANGED <<debug, ndebug, it, view, ops>>

\* codec[0].get<T>()
GetInt ==
    /\ ~Aborted
    /\ buf # <<>>
    /\ \E T \in IntTypes :
          call' = Call("get", buf, [T |-> T], get_int(T, buf, 1))
    /\ UNCHANGED <<debug, ndebug, buf, it, view, ops>>

\* codec::clear
Clear ==
    /\ ~Aborted
    /\ buf # <<>>
    /\ buf' = <<>>
    /\ call' = Call("clear", <<>>, <<>>, Ok(<<>>))
    /\ UNCHANGED <<debug, ndebug, it, view, ops>>

\* codec[0].type(), after the call that made the item (kept as the argument)
GetType ==
    /\ ~Aborted
    /\ buf # <<>>
    /\ call.op \in {"push_back_int", "codec"}
    /\ call' = Call("type", buf, call, item_type(buf, 1))
    /\ UNCHANGED <<debug, ndebug, buf, it, view, ops>>

NextInt == IntPushBack \/ CodecOver \/ GetInt \/ Clear \/ GetType \/ CodecOverHead

SpecInt == InitInt /\ [][NextInt]_vars

\* ------------------------------------------------------------------------
\* Claims about the head and integer codecs.

Int64 == [signed |-> TRUE, w |-> 8]
UInt64 == [signed |-> FALSE, w |-> 8]

\* the size the shortest-form rule gives argument a
ShortestSize(a) ==
    IF LeU(a, U64of(23)) THEN 1
    ELSE IF LeU(a, U64of(255)) THEN 2
    ELSE IF LeU(a, U64of(65535)) THEN 3
    ELSE IF a[1] = 0 /\ a[2] = 0 /\ a[3] = 0 /\ a[4] = 0 THEN 5
    ELSE 9

\* C7: for every major type m and argument a the head written has the
\* shortest size for a (1, 2, 3, 5 or 9 bytes), its first byte carries m, the
\* argument bytes are the low bytes of a in big-endian order (or a itself
\* inline when a <= 23), and decoding the head returns m, a and that size.
C7_ShortestHead ==
    call.op \in {"encode_ih", "decode_head"} =>
        LET m == call.arg.m
            a == call.arg.a
            n == ShortestSize(a)
        IN  /\ Len(buf) = n
            /\ buf[1] \div 32 = m
            /\ IF n = 1 THEN buf[1] % 32 = a[8] /\ a[8] <= 23
               ELSE /\ buf[1] % 32 = (CASE n = 2 -> 24 [] n = 3 -> 25 [] n = 5 -> 26 [] n = 9 -> 27)
                    /\ \A i \in 2..n : buf[i] = a[8 - n + i]
            /\ call.op = "decode_head" =>
                  /\ call.out.v.major = m
                  /\ call.out.v.arg = Ok(a)
                  /\ call.out.v.size = Ok(n)

C7_Witness ==
    /\ call.op = "decode_head"
    /\ call.arg.m = tag
    /\ call.arg.a = <<0, 0, 0, 1, 0, 0, 0, 0>>
    /\ Len(buf) = 9
    /\ call.out.v.arg = Ok(call.arg.a)

\* the value pushed by the last push_back_int
PushedValue == ValueOf(call.arg.T, call.arg.b)

\* C6: encoding v writes a posint head with argument v when v >= 0 and a
\* negint head with argument -1-v when v < 0, and get<int64_t> (v in the
\* signed range) or get<uint64_t> (v >= 0) of the item returns v.
C6_IntRoundTrip ==
    call.op = "push_back_int" =>
        LET v == PushedValue
        IN  /\ IsOk(call.out)
            /\ buf # <<>>
            /\ get_major(buf, 1) = (IF v.neg THEN negint ELSE posint)
            /\ get_arg(buf, 1) = Ok(v.mag)
            /\ Len(buf) = ShortestSize(v.mag)
            /\ LeU(v.mag, INT64_MAX) => get_int(Int64, buf, 1) = Ok(v)
            /\ ~v.neg => get_int(UInt64, buf, 1) = Ok(v)

\* the item read by the last get<T>
GotMajor == get_major(buf, 1)
GotArg == get_arg(buf, 1).v

\* C8: get<T> of a posint item with argument a returns a when a <= max(T)
\* and raises Overflow when a > max(T).
C8_PosintDecode ==
    (call.op = "get" /\ GotMajor = posint) =>
        IF LeU(GotArg, MaxOf(call.arg.T))
        THEN call.out = Ok([neg |-> FALSE, mag |-> GotArg])
        ELSE call.out.err = "Overflow"

\* C9: get<T> of a negint item raises Overflow for every unsigned T.
C9_NegintUnsigned ==
    (call.op = "get" /\ GotMajor = negint /\ ~call.arg.T.signed) =>
        call.out.err = "Overflow"

\* C10: get<T> of a negint item whose argument exceeds 2^63-1 raises Overflow
\* for every signed T; for argument 2^63-1, get<int64_t> returns -2^63.
C10_NegativeBoundary ==
    (call.op = "get" /\ GotMajor = negint /\ call.arg.T.signed) =>
        /\ LtU(INT64_MAX, GotArg) => call.out.err = "Overflow"
        /\ (GotArg = INT64_MAX /\ call.arg.T = Int64) =>
              call.out = Ok([neg |-> TRUE, mag |-> INT64_MAX])

C10_Witness ==
    /\ call.op = "get"
    /\ GotMajor = negint
    /\ GotArg = UINT64_MAX
    /\ call.arg.T = [signed |-> TRUE, w |-> 1]
    /\ call.out.err = "Overflow"

\* ------------------------------------------------------------------------
\* SpecNav: a codec over storage written by push_back, and a cursor moved
\* over it by the navigation calls.

\* the largest argument a head byte holds inline (ih::make: a <= 23)
InlineMax == 23

\* nesting depth of the values of SpecNav
MaxDepth == 2

\* the largest index given to codec[k]
MaxItems == 3

Zeros(n) == [j \in 1..n |-> IntV(0)]

Leaves == {IntV(0), IntV(24), Text(<<97>>)}

Wrap(x) ==
    {Arr(<<x>>), Arr(<<x, IntV(0)>>), Arr(<<Text(<<97>>), x>>),
     Tagged(U64of(1), x), Map(<<IntV(0), x>>)}

RECURSIVE NavValues(_)
NavValues(d) ==
    IF d = 0 THEN Leaves \cup {Arr(<<>>)}
    ELSE NavValues(d - 1) \cup UNION {Wrap(x) : x \in NavValues(d - 1)}

NavSequences ==
    {<<>>} \cup {<<v>> : v \in NavValues(MaxDepth)}
           \cup {<<v, IntV(0)>> : v \in NavValues(MaxDepth)}
           \cup {<<Text(<<97>>), v>> : v \in NavValues(MaxDepth)}
           \cup {<<Arr(Zeros(InlineMax + 1)), IntV(0)>>,
                 <<Tagged(U64of(1), Arr(<<Arr(Zeros(InlineMax + 1)), IntV(24)>>))>>}

InitNav ==
    /\ buf \in {codec_push_back(<<>>, vs) : vs \in NavSequences}
    /\ it = begin
    /\ view = NoView
    /\ ops = 0
    /\ debug \in BOOLEAN
    /\ ndebug \in (IF debug THEN {FALSE} ELSE BOOLEAN)
    /\ call = Call("init", <<>>, <<>>, Ok(<<>>))

\* an undefined read ends what the model follows
Defined(r) == r.err # "OutOfBounds"

\* the call moved the cursor, or raised and left it
Moved(name, a, r) ==
    /\ Defined(r)
    /\ it' = IF IsOk(r) THEN r.v ELSE it
    /\ call' = Call(name, buf, a, IF IsOk(r) THEN Ok(<<>>) ELSE r)
    /\ UNCHANGED <<debug, ndebug, buf, view, ops>>

\* ++it: codec::next(it)
NavNext ==
    /\ ~Aborted
    /\ it.data <= Len(buf)
    /\ \E r \in {item_next(buf, it)} : Moved("next", it, r)

\* it->untag()
NavUntag ==
    /\ ~Aborted
    /\ it.data <= Len(buf)
    /\ \E r \in {untag(buf, it)} : Moved("untag", it, r)

\* it->get_array().begin()
NavArrayBegin ==
    /\ ~Aborted
    /\ it.data <= Len(buf)
    /\ \E a \in {get_array(buf, it)} :
          \E r \in {IF IsOk(a) THEN enter_container(buf, a.v) ELSE a} :
              Moved("array_begin", it, r)

\* it->get_array().end()
NavArrayEnd ==
    /\ ~Aborted
    /\ it.data <= Len(buf)
    /\ \E a \in {get_array(buf, it)} :
          \E r \in {IF IsOk(a) THEN array_end(buf, a.v) ELSE a} :
              Moved("array_end", it, r)

\* it->get_array()[k], k below the array's size()
NavArrayIndex ==
    /\ ~Aborted
    /\ it.data <= Len(buf)
    /\ IsOk(get_array(buf, it))
    /\ \E n \in {array_size(buf, it)} :
          /\ IsOk(n)
          /\ \E k \in 0..(n.v - 1) : \E r \in {array_index(buf, it, k)} :
                Moved("array_index", [it |-> it, k |-> k], r)

\* codec[k], k the index of an item
NavIndex ==
    /\ ~Aborted
    /\ \E k \in 0..MaxItems : \E r \in {codec_index(buf, k)} :
          /\ IsOk(r) => r.v.data <= Len(buf)
          /\ Moved("index", k, r)

\* codec.size()
NavSize ==
    /\ ~Aborted
    /\ \E r \in {codec_size(buf)} :
          /\ Defined(r)
          /\ call' = Call("size", buf, <<>>, r)
    /\ UNCHANGED <<debug, ndebug, buf, it, view, ops>>

\* (it + k) - n for the cursor it = codec.begin(), n <= k
NavBack ==
    /\ ~Aborted
    /\ it.data = 1
    /\ \E k \in 0..MaxItems : \E n \in 0..k : \E f \in {codec_next(buf, begin, k)} :
          /\ IsOk(f)
          /\ f.v.data <= Len(buf) + 1
          /\ \E r \in {codec_prev(buf, f.v, n)} :
                /\ it' = IF IsOk(r) THEN r.v ELSE it
                /\ call' = Call("back", buf, [k |-> k, n |-> n],
                                IF IsOk(r) THEN Ok(<<>>) ELSE r)
    /\ UNCHANGED <<debug, ndebug, buf, view, ops>>

\* (it->get_array().begin() + k) - n, k up to the array's size(), n <= k
NavArrayBack ==
    /\ ~Aborted
    /\ it.data <= Len(buf)
    /\ IsOk(get_array(buf, it))
    /\ \E s \in {array_size(buf, it)} : \E e \in {enter_container(buf, it)} :
          /\ IsOk(s)
          /\ IsOk(e)
          /\ \E k \in 0..s.v : \E n \in 0..k : \E f \in {codec_next(buf, e.v, k)} :
                /\ k <= MaxItems
                /\ IsOk(f)
                /\ \E r \in {codec_prev(buf, f.v, n)} :
                      /\ it' = IF IsOk(r) THEN r.v ELSE it
                      /\ call' = Call("array_back", buf, [it |-> it, k |-> k, n |-> n],
                                      IF IsOk(r) THEN Ok(<<>>) ELSE r)
    /\ UNCHANGED <<debug, ndebug, buf, view, ops>>

\* it == begin(), it <=> begin(), it - begin()
NavEqual ==
    /\ ~Aborted
    /\ call' = Call("equal", buf, [l |-> it, r |-> begin], itr_equal(it, begin))
    /\ UNCHANGED <<debug, ndebug, buf, it, view, ops>>

NavOrder ==
    /\ ~Aborted
    /\ call' = Call("order", buf, [l |-> it, r |-> begin], itr_order(it, begin))
    /\ UNCHANGED <<debug, ndebug, buf, it, view, ops>>

NavDifference ==
    /\ ~Aborted
    /\ call' = Call("difference", buf, [l |-> it, r |-> begin], itr_difference(it, begin))
    /\ UNCHANGED <<debug, ndebug, buf, it, view, ops>>

NextNav ==
    \/ NavNext
    \/ NavUntag
    \/ NavArrayBegin
    \/ NavArrayEnd
    \/ NavArrayIndex
    \/ NavIndex
    \/ NavSize
    \/ NavBack
    \/ NavArrayBack
    \/ NavEqual
    \/ NavOrder
    \/ NavDifference

SpecNav == InitNav /\ [][NextNav]_vars

\* ------------------------------------------------------------------------
\* Claims about navigation.

\* the items of b hold no map
MapFree(b) == WellFormed(b) /\ RefMapFree(b, 1, RefCount(b))

\* C3: size() is the number of top-level items of every well-formed buffer
\* (whose items are scalars, strings, arrays and tagged items), and empty()
\* holds exactly when size() is 0.
C3_SizeCountsItems ==
    (call.op = "size" /\ MapFree(buf)) =>
        /\ call.out = Ok(RefCount(buf))
        /\ codec_empty(buf) <=> (call.out = Ok(0))

\* the steps a loop "for (i = begin(); i != end(); ++i)" over the array view
\* at a takes: cursors are compared by data_
RECURSIVE LoopSteps(_, _, _)
LoopSteps(b, i, e) ==
    IF i.data = e.data THEN 0
    ELSE IF ~IsOk(item_next(b, i)) THEN -1
    ELSE LET r == LoopSteps(b, item_next(b, i).v, e)
         IN  IF r < 0 THEN -1 ELSE 1 + r

\* C4: from the head of a complete item that holds no map, next() lands on
\* the offset one past the item's span; codec[k] and array_view[k] land on
\* the head of the k-th child; array_view.end() is one past the last child
\* and a loop from begin() to end() takes as many steps as the array declares.
C4_NextLandsAfterItem ==
    /\ (call.op = "next" /\ RefMapFree(buf, call.arg.data, 1)) =>
          /\ IsOk(call.out)
          /\ it.data = RefEnd(buf, call.arg.data)
    /\ (call.op = "index" /\ MapFree(buf) /\ call.arg < RefCount(buf)) =>
          /\ IsOk(call.out)
          /\ it.data = RefSkip(buf, 1, call.arg)
    /\ (call.op = "array_index" /\ RefEnd(buf, call.arg.it.data) # 0
            /\ RefMapFree(buf, call.arg.it.data + RefHeadLen(buf, call.arg.it.data), call.arg.k)) =>
          /\ IsOk(call.out)
          /\ it.data = RefSkip(buf, call.arg.it.data + RefHeadLen(buf, call.arg.it.data), call.arg.k)
    /\ (call.op = "array_end" /\ get_major(buf, call.arg.data) = array
            /\ RefMapFree(buf, call.arg.data, 1)) =>
          /\ IsOk(call.out)
          /\ it.data = RefEnd(buf, call.arg.data)
          /\ LoopSteps(buf, enter_container(buf, call.arg).v, it) = RefArg(buf, call.arg.data)

\* ------------------------------------------------------------------------
\* Spec: a codec over storage that holds what earlier push_back calls wrote,
\* changed by push_back, array push_back through a view, replace and erase.

\* mutating calls followed from the initial storage
MaxOps == 2

InitSequences ==
    {<<>>,
     <<IntV(0), Arr(Zeros(InlineMax)), Text(<<97>>)>>,
     <<Arr(<<IntV(0), Arr(<<IntV(24)>>), Text(<<97>>)>>)>>,
     <<Tagged(U64of(1), Arr(<<>>)), IntV(0)>>}

\* the argument lists of a push_back call
PushSeqs ==
    {<<IntV(24)>>,
     <<IntV(0), Text(<<97>>)>>,
     <<Arr(<<>>), Tagged(UINT16_MAX, IntV(0))>>,
     <<Tagged(U64of(1), Tagged(UINT32_MAX, IntV(0)))>>,
     <<Arr(<<IntV(0), Tagged(UINT64_MAX, Null)>>)>>}

\* the values assigned to an item
ReplVals == {Arr(<<IntV(24)>>), Tagged(UINT16_MAX, IntV(0))}

Init ==
    /\ buf \in {codec_push_back(<<>>, vs) : vs \in InitSequences}
    /\ it = NoView
    /\ view = NoView
    /\ ops = 0
    /\ debug \in BOOLEAN
    /\ ndebug = FALSE
    /\ call = Call("init", <<>>, <<>>, Ok(<<>>))

\* codec.push_back(vs...); any view the caller holds is invalidated
PushBack ==
    /\ ops < MaxOps
    /\ \E vs \in PushSeqs :
          /\ buf' = codec_push_back(buf, vs)
          /\ call' = Call("push_back", buf, vs, EncodeResult(encode_sequence(vs)))
    /\ view' = NoView
    /\ ops' = ops + 1
    /\ UNCHANGED <<debug, ndebug, it>>

\* the caller takes an array view, while a mutating call can still follow: r is
\* the item cursor it asks get_array() of
TakeView(name, a, r) ==
    /\ ops < MaxOps
    /\ IsOk(r)
    /\ r.v.data <= Len(buf)
    /\ \E g \in {get_array(buf, r.v)} :
          /\ view' = IF IsOk(g) THEN g.v ELSE view
          /\ call' = Call(name, buf, a, IF IsOk(g) THEN Ok(<<>>) ELSE g)
    /\ UNCHANGED <<debug, ndebug, buf, it, ops>>

\* view = codec[k].get_array()
GetArrayAt ==
    \E k \in 0..MaxItems : \E r \in {codec_index(buf, k)} :
        TakeView("get_array", k, r)

\* view = view[k].get_array()
GetArrayIn ==
    /\ view # NoView
    /\ \E n \in {array_size(buf, view)} :
          /\ IsOk(n)
          /\ \E k \in 0..(n.v - 1) : \E r \in {array_index(buf, view, k)} :
                TakeView("get_array_in", k, r)

\* view = codec[k].untag().get_array()
GetArrayUntag ==
    \E k \in 0..MaxItems : \E r \in {codec_index(buf, k)} :
        /\ IsOk(r)
        /\ r.v.data <= Len(buf)
        /\ \E u \in {untag(buf, r.v)} :
              /\ IsOk(u)
              /\ TakeView("get_array_untag", k, u)

\* view.push_back(vs...)
ArrayPushBack ==
    /\ ops < MaxOps
    /\ view # NoView
    /\ \E vs \in PushSeqs : \E e \in {array_end(buf, view)} : \E n \in {array_size(buf, view)} :
          /\ IsOk(e)
          /\ IsOk(n)
          /\ \E r \in {array_push_back(buf, view, e.v, n.v, vs)} :
                /\ buf' = r.buf
                \* a throw leaves it_.data_ as it was before the inserts, which
                \* invalidate it: the view is the old position or unusable
                /\ view' \in (IF encode_sequence(vs).ok THEN {r.it} ELSE {r.it, NoView})
          /\ call' = Call("array_push_back", buf, [it |-> view, vs |-> vs],
                          EncodeResult(encode_sequence(vs)))
    /\ ops' = ops + 1
    /\ UNCHANGED <<debug, ndebug, it>>

\* codec[k] = v, v a value
Replace ==
    /\ ops < MaxOps
    /\ \E k \in 0..MaxItems : \E v \in ReplVals : \E p \in {codec_index(buf, k)} :
          /\ IsOk(p)
          /\ p.v.data <= Len(buf)
          /\ \E pe \in {item_next(buf, p.v)} :
                /\ IsOk(pe)
                /\ buf' = codec_replace_item(buf, p.v, pe.v, v)
          /\ call' = Call("replace", buf, [k |-> k, v |-> v], EncodeResult(encode(v)))
    /\ view' = NoView
    /\ ops' = ops + 1
    /\ UNCHANGED <<debug, ndebug, it>>

\* codec[k] = codec[j]
ReplaceCopy ==
    /\ ops < MaxOps
    /\ \E k, j \in 0..MaxItems : \E p \in {codec_index(buf, k)} : \E v \in {codec_index(buf, j)} :
          /\ IsOk(p)
          /\ IsOk(v)
          /\ p.v.data <= Len(buf)
          /\ v.v.data <= Len(buf)
          /\ \E pe \in {item_next(buf, p.v)} : \E ve \in {item_next(buf, v.v)} :
                /\ IsOk(pe)
                /\ IsOk(ve)
                /\ buf' = codec_replace_copy(buf, p.v, pe.v, v.v, ve.v)
          /\ call' = Call("replace_copy", buf, [k |-> k, j |-> j], Ok(<<>>))
    /\ view' = NoView
    /\ ops' = ops + 1
    /\ UNCHANGED <<debug, ndebug, it>>

\* codec.erase(codec.begin() + k, codec.begin() + j)
Erase ==
    /\ ops < MaxOps
    /\ \E k, j \in 0..MaxItems : \E p \in {codec_next(buf, begin, k)} :
       \E e \in {codec_next(buf, begin, j)} :
          /\ k < j
          /\ IsOk(p)
          /\ IsOk(e)
          /\ p.v.data <= e.v.data
          /\ e.v.data <= Len(buf) + 1
          /\ buf' = codec_erase(buf, p.v, e.v)
          /\ call' = Call("erase", buf, [k |-> k, j |-> j], Ok(<<>>))
    /\ view' = NoView
    /\ ops' = ops + 1
    /\ UNCHANGED <<debug, ndebug, it>>

Next ==
    \/ PushBack
    \/ GetArrayAt
    \/ GetArrayIn
    \/ GetArrayUntag
    \/ ArrayPushBack
    \/ Replace
    \/ ReplaceCopy
    \/ Erase

Spec == Init /\ [][Next]_vars

\* ------------------------------------------------------------------------
\* Claims on the mutations.

\* the complete byte span of top-level item k of b
ItemSpan(b, k) ==
    LET s == RefSkip(b, 1, k)
    IN  SubSeq(b, s, RefEnd(b, s) - 1)

\* C1: a successful push_back of k values through a view of an array of n
\* children leaves the head declaring n + k children, the old children as they
\* were, the encodings of the new values in argument order right after the old
\* last child, every byte before the head and after the array's old last byte
\* as it was, and the view at the array's head byte.
C1_ArrayPushBack ==
    (/\ call.op = "array_push_back"
     /\ IsOk(call.out)
     /\ WellFormed(call.pre))
        => LET pre == call.pre
               p == call.arg.it.data
               h == RefHeadLen(pre, p)
               n == RefArg(pre, p)
               e == RefEnd(pre, p)
               k == Len(call.arg.vs)
               enc == encode_sequence(call.arg.vs).bytes
               nh == RefHeadLen(buf, p)
           IN  /\ buf[p] \div 32 = array
               /\ RefArg(buf, p) = n + k
               /\ nh = RefHeadLen(make(array, U64of(n + k)), 1)
               /\ buf = SubSeq(pre, 1, p - 1) \o SubSeq(buf, p, p + nh - 1)
                            \o SubSeq(pre, p + h, e - 1) \o enc
                            \o SubSeq(pre, e, Len(pre))
               /\ RefEnd(buf, p) = p + nh + (e - p - h) + Len(enc)
               /\ view = call.arg.it

\* two values pushed into a nested array of 23 children, bytes before and after
C1_Witness ==
    /\ call.op = "array_push_back"
    /\ IsOk(call.out)
    /\ WellFormed(call.pre)
    /\ RefArg(call.pre, call.arg.it.data) = InlineMax
    /\ Len(call.arg.vs) = 2
    /\ call.arg.it.data > 1
    /\ RefEnd(call.pre, call.arg.it.data) <= Len(call.pre)
    /\ RefArg(buf, call.arg.it.data) = InlineMax + 2

\* C2: after any sequence of codec push_back, array push_back, replace and
\* erase calls, failed ones included, the buffer is a concatenation of complete
\* items and every array head counts the children that follow it.
C2_BufferWellFormed == WellFormed(buf)

\* C5: a successful replace of top-level item k by a value or by a copy of item
\* j yields the bytes before item k, the new encoding (the span item j had
\* before the call), the bytes after item k; the number of items is unchanged
\* and every other item keeps its bytes.
C5_Replace ==
    (/\ call.op \in {"replace", "replace_copy"}
     /\ IsOk(call.out)
     /\ WellFormed(call.pre))
        => LET pre == call.pre
               k == call.arg.k
               s == RefSkip(pre, 1, k)
               e == RefEnd(pre, s)
               new == IF call.op = "replace" THEN encode(call.arg.v).bytes
                      ELSE ItemSpan(pre, call.arg.j)
           IN  /\ k < RefCount(pre)
               /\ buf = SubSeq(pre, 1, s - 1) \o new \o SubSeq(pre, e, Len(pre))
               /\ RefCount(buf) = RefCount(pre)
               /\ \A i \in 0..(RefCount(pre) - 1) :
                     i # k => ItemSpan(buf, i) = ItemSpan(pre, i)

\* item 0 replaced by a copy of a later item of another size, and an item
\* replaced by a fresh value
C5_Witness ==
    /\ call.op = "replace_copy"
    /\ WellFormed(call.pre)
    /\ call.arg.j > call.arg.k
    /\ Len(ItemSpan(call.pre, call.arg.j)) > Len(ItemSpan(call.pre, call.arg.k))
    /\ RefCount(call.pre) = 3
    /\ ItemSpan(buf, call.arg.k) = ItemSpan(call.pre, call.arg.j)

\* ------------------------------------------------------------------------
\* SpecTag: one tagged value pushed on the empty codec, then read by get_tag
\* and untag.

\* the values tagged
TagInner == {IntV(0), Text(<<97>>), Tagged(U64of(24), Null), Arr(<<Null>>)}

InitTag ==
    /\ buf = <<>>
    /\ it = begin
    /\ view = NoView
    /\ ops = 0
    /\ debug \in BOOLEAN
    /\ ndebug = FALSE
    /\ call = Call("init", <<>>, <<>>, Ok(<<>>))

\* codec.push_back(cbor::tagged{t, v}) on the empty codec
TagPushBack ==
    /\ call.op = "init"
    /\ \E t \in Samples(8) : \E v \in TagInner :
          /\ buf' = codec_push_back(buf, <<Tagged(t, v)>>)
          /\ call' = Call("push_tagged", buf, [t |-> t, v |-> v],
                          EncodeResult(encode_sequence(<<Tagged(t, v)>>)))
    /\ UNCHANGED <<debug, ndebug, it, view, ops>>

\* begin()->get_tag()
GetTag ==
    /\ call.op = "push_tagged"
    /\ buf # <<>>
    /\ call' = Call("get_tag", buf, call.arg, get_tag(buf, begin))
    /\ UNCHANGED <<debug, ndebug, buf, it, view, ops>>

\* it = begin()->untag().data()
Untag ==
    /\ call.op = "push_tagged"
    /\ buf # <<>>
    /\ \E r \in {untag(buf, begin)} :
          /\ it' = IF IsOk(r) THEN r.v ELSE it
          /\ call' = Call("untag", buf, call.arg, IF IsOk(r) THEN Ok(<<>>) ELSE r)
    /\ UNCHANGED <<debug, ndebug, buf, view, ops>>

NextTag == TagPushBack \/ GetTag \/ Untag

SpecTag == InitTag /\ [][NextTag]_vars

\* the three tag values that are always invalid
ReservedTags ==
    {<<0, 0, 0, 0, 0, 0, 255, 255>>,
     <<0, 0, 0, 0, 255, 255, 255, 255>>,
     <<255, 255, 255, 255, 255, 255, 255, 255>>}

\* C11: encoding a tagged value with tag 65535, 4294967295 or
\* 18446744073709551615 raises InvalidTagValue; for every other tag t the
\* bytes are a tag-major head with argument t in shortest form followed by the
\* encoding of the inner value, get_tag returns t, and untag is positioned on
\* the inner value's head byte.
C11_TagValidity ==
    call.op \in {"push_tagged", "get_tag", "untag"} =>
        LET t == call.arg.t
            n == ShortestSize(t)
        IN  IF t \in ReservedTags
            THEN call.op = "push_tagged" /\ call.out.err = "InvalidTagValue"
            ELSE /\ IsOk(call.out)
                 /\ buf[1] \div 32 = 6
                 /\ IF n = 1 THEN buf[1] % 32 = t[8]
                    ELSE /\ buf[1] % 32 = (CASE n = 2 -> 24 [] n = 3 -> 25 [] n = 5 -> 26 [] n = 9 -> 27)
                         /\ \A i \in 2..n : buf[i] = t[8 - n + i]
                 /\ SubSeq(buf, n + 1, Len(buf)) = encode(call.arg.v).bytes
                 /\ call.op = "get_tag" => call.out = Ok(t)
                 /\ call.op = "untag" => it.data = n + 1

\* tag 4294967296 on an array: nine head bytes, untag on the array head
C11_Witness ==
    /\ call.op = "untag"
    /\ call.arg.t = <<0, 0, 0, 1, 0, 0, 0, 0>>
    /\ call.arg.v = Arr(<<Null>>)
    /\ it.data = 10
    /\ buf[it.data] = 129

\* ------------------------------------------------------------------------
\* Claims on failed appends (under Spec).

\* C12: a codec push_back or array push_back that raises InvalidTagValue
\* leaves the buffer byte-for-byte as it was before the call.
C12_FailedAppendAtomic ==
    (/\ call.op \in {"push_back", "array_push_back"}
     /\ call.out.err = "InvalidTagValue")
        => buf = call.pre

\* ------------------------------------------------------------------------
\* Claims on maps and backward steps (under SpecNav).

\* C13: next() from the head of a complete map of k pairs steps over its 2*k
\* children and lands just past the last value, or raises UnsupportedFeature.
C13_MapSkip ==
    (/\ call.op = "next"
     /\ buf[call.arg.data] \div 32 = 5
     /\ RefEnd(buf, call.arg.data) # 0)
        => \/ /\ IsOk(call.out)
              /\ it.data = RefSkip(buf, call.arg.data + RefHeadLen(buf, call.arg.data),
                                   2 * RefArg(buf, call.arg.data))
           \/ call.out.err = "UnsupportedFeature"

\* C14: stepping back by n <= k from the cursor at index k of the top-level
\* sequence, or of the children of an array, returns the cursor at index k - n
\* of that scope (so (it + n) - n is it), for buffers and arrays without maps.
C14_BackwardSteps ==
    /\ (call.op = "back" /\ MapFree(buf) /\ call.arg.k <= RefCount(buf)) =>
          /\ IsOk(call.out)
          /\ it.data = RefSkip(buf, 1, call.arg.k - call.arg.n)
    /\ (call.op = "array_back" /\ RefMapFree(buf, call.arg.it.data, 1)
            /\ call.arg.k <= RefArg(buf, call.arg.it.data)) =>
          /\ IsOk(call.out)
          /\ it.data = RefSkip(buf, call.arg.it.data + RefHeadLen(buf, call.arg.it.data),
                               call.arg.k - call.arg.n)


\* ------------------------------------------------------------------------
\* Floating point values are their IEEE 754 bits, big-endian: 4 bytes for
\* float, 8 bytes for double.  FloatTypes are the widths in bytes.

FloatTypes == {4, 8}

\* the bits of a float of sign s, exponent field e and fraction m (23 bits)
FloatOf(s, e, m) ==
    <<s * 128 + e \div 2, (e % 2) * 128 + m \div 65536, (m \div 256) % 256, m % 256>>

\* the bits of a double of sign s, exponent field e and a fraction whose
\* first 23 bits are m and whose other 29 bits are zero
DoubleOf(s, e, m) ==
    <<s * 128 + e \div 16, (e % 16) * 16 + m \div 524288, (m \div 2048) % 256,
      (m \div 8) % 256, (m % 8) * 32, 0, 0, 0>>

Sign(v) == v[1] \div 128

\* exponent field and fraction of a float
FloatExp(f) == (f[1] % 128) * 2 + f[2] \div 128
FloatFrac(f) == (f[2] % 128) * 65536 + f[3] * 256 + f[4]

\* exponent field of a double, the first 23 bits of its fraction, and
\* whether the other 29 bits are zero
DoubleExp(d) == (d[1] % 128) * 16 + d[2] \div 16
DoubleFrac23(d) == (d[2] % 16) * 524288 + d[3] * 2048 + d[4] * 8 + d[5] \div 32
DoubleLowZero(d) == d[5] % 32 = 0 /\ d[6] = 0 /\ d[7] = 0 /\ d[8] = 0

\* std::isnan, std::isinf for a value of w bytes
isnan(v) ==
    IF Len(v) = 4 THEN FloatExp(v) = 255 /\ FloatFrac(v) # 0
    ELSE DoubleExp(v) = 2047 /\ ~(DoubleFrac23(v) = 0 /\ DoubleLowZero(v))

isinf(v) ==
    IF Len(v) = 4 THEN FloatExp(v) = 255 /\ FloatFrac(v) = 0
    ELSE DoubleExp(v) = 2047 /\ DoubleFrac23(v) = 0 /\ DoubleLowZero(v)

\* static_cast<double>(f): every float is a double
Widen(f) ==
    LET s == Sign(f)
        e == FloatExp(f)
        m == FloatFrac(f)
    IN  IF e = 255 THEN DoubleOf(s, 2047, m)
        ELSE IF e = 0 /\ m = 0 THEN DoubleOf(s, 0, 0)
        ELSE IF e = 0
        THEN LET k == CHOOSE j \in 0..22 : 2 ^ j <= m /\ m < 2 ^ (j + 1)
             IN  DoubleOf(s, k + 874, (m - 2 ^ k) * 2 ^ (23 - k))
        ELSE DoubleOf(s, e + 896, m)

\* the double d is the value of some float
Representable(d) ==
    LET e == DoubleExp(d)
        m == DoubleFrac23(d)
    IN  /\ DoubleLowZero(d)
        /\ \/ e = 2047
           \/ e = 0 /\ m = 0
           \/ e >= 897 /\ e <= 1150
           \/ e >= 874 /\ e <= 896 /\ (8388608 + m) % (2 ^ (897 - e)) = 0

\* static_cast<float>(d) for a d that is the value of some float
Narrow(d) ==
    LET s == Sign(d)
        e == DoubleExp(d)
        m == DoubleFrac23(d)
    IN  IF e = 2047 THEN FloatOf(s, 255, m)
        ELSE IF e = 0 THEN FloatOf(s, 0, 0)
        ELSE IF e >= 897 THEN FloatOf(s, e - 896, m)
        ELSE FloatOf(s, 0, (8388608 + m) \div (2 ^ (897 - e)))

\* std::numeric_limits<T>::quiet_NaN(), infinity(), -infinity()
quiet_NaN(w) == IF w = 4 THEN FloatOf(0, 255, 4194304) ELSE DoubleOf(0, 2047, 4194304)
infinity(w) == IF w = 4 THEN FloatOf(0, 255, 0) ELSE DoubleOf(0, 2047, 0)
neg_infinity(w) == IF w = 4 THEN FloatOf(1, 255, 0) ELSE DoubleOf(1, 2047, 0)

\* ih::fp16, ih::fp32, ih::fp64, and the one-byte items
fp16 == make_byte(special, 25)
fp32 == make_byte(special, 26)
fp64 == make_byte(special, 27)
bool_false == make_byte(special, 20)
bool_true == make_byte(special, 21)
null == make_byte(special, 22)
undefined == make_byte(special, 23)

\* ------------------------------------------------------------------------
\* The typed accessors of data_item, for the item at p.

\* (get<bool> deciding by the major type alone)
get_bool_by_major(b, p) ==
    IF get_major(b, p) = special THEN Ok(b[p] = bool_true) ELSE Err("WrongKind")

\* data_item::get<bool>
get_bool(b, p) ==
    IF b[p] = bool_false THEN Ok(FALSE)
    ELSE IF b[p] = bool_true THEN Ok(TRUE)
    ELSE Err("WrongKind")

\* the w bytes after the head byte, as they are
payload(b, p, w) ==
    IF p + w > Len(b) THEN Err("OutOfBounds") ELSE Ok(SubSeq(b, p + 1, p + w))

\* (get<T> without the test of the second payload byte of a half float)
get_float_first_byte_only(w, b, p) ==
    IF b[p] = fp16
    THEN IF p + 2 > Len(b) THEN Err("OutOfBounds")
         ELSE IF b[p + 1] = 126 THEN Ok(quiet_NaN(w))
         ELSE IF b[p + 1] = 124 THEN Ok(infinity(w))
         ELSE IF b[p + 1] = 252 THEN Ok(neg_infinity(w))
         ELSE Err("UnsupportedFeature")
    ELSE IF b[p] = fp32
    THEN LET f == payload(b, p, 4)
         IN  IF ~IsOk(f) THEN f
             ELSE IF w = 4 THEN f ELSE Ok(Widen(f.v))
    ELSE IF b[p] = fp64
    THEN LET vd == payload(b, p, 8)
         IN  IF ~IsOk(vd) THEN vd
             ELSE IF isnan(vd.v) THEN Err("LossyConversion")
             ELSE IF w = 8 THEN vd
             ELSE IF Representable(vd.v) THEN Ok(Narrow(vd.v))
             ELSE Err("LossyConversion")
    ELSE Err("WrongKind")

\* data_item::get<T>, T float (w = 4) or double (w = 8).  In the fp64 branch
\* "v = vd, v != vd" holds when the narrowed value differs and when vd is a
\* NaN, which differs from itself.
get_float(w, b, p) ==
    IF b[p] = fp16
    THEN IF p + 2 > Len(b) THEN Err("OutOfBounds")
         ELSE IF b[p + 2] # 0 THEN Err("UnsupportedFeature")
         ELSE IF b[p + 1] = 126 THEN Ok(quiet_NaN(w))
         ELSE IF b[p + 1] = 124 THEN Ok(infinity(w))
         ELSE IF b[p + 1] = 252 THEN Ok(neg_infinity(w))
         ELSE Err("UnsupportedFeature")
    ELSE IF b[p] = fp32
    THEN LET f == payload(b, p, 4)
         IN  IF ~IsOk(f) THEN f
             ELSE IF w = 4 THEN f ELSE Ok(Widen(f.v))
    ELSE IF b[p] = fp64
    THEN LET vd == payload(b, p, 8)
         IN  IF ~IsOk(vd) THEN vd
             ELSE IF isnan(vd.v) THEN Err("LossyConversion")
             ELSE IF w = 8 THEN vd
             ELSE IF Representable(vd.v) THEN Ok(Narrow(vd.v))
             ELSE Err("LossyConversion")
    ELSE Err("WrongKind")

\* data_item::get_bytes: the bytes the returned view covers
get_bytes(b, p) ==
    IF get_major(b, p) # bytes THEN Err("WrongKind")
    ELSE LET h == get_ih_size(b, p)
             d == get_data_size(b, p)
         IN  IF ~IsOk(h) THEN h
             ELSE IF ~IsOk(d) THEN d
             ELSE IF ~IsSmall(d.v) THEN Err("OutOfBounds")
             ELSE IF p + h.v + ToNat(d.v) - 1 > Len(b) THEN Err("OutOfBounds")
             ELSE Ok(SubSeq(b, p + h.v, p + h.v + ToNat(d.v) - 1))

\* data_item::get_string: the bytes the returned view covers
get_string(b, p) ==
    IF get_major(b, p) # utf8 THEN Err("WrongKind")
    ELSE LET h == get_ih_size(b, p)
             d == get_data_size(b, p)
         IN  IF ~IsOk(h) THEN h
             ELSE IF ~IsOk(d) THEN d
             ELSE IF ~IsSmall(d.v) THEN Err("OutOfBounds")
             ELSE IF p + h.v + ToNat(d.v) - 1 > Len(b) THEN Err("OutOfBounds")
             ELSE Ok(SubSeq(b, p + h.v, p + h.v + ToNat(d.v) - 1))


\* ------------------------------------------------------------------------
\* SpecKind: a codec over storage that holds one item of some kind, read
\* through *begin() by each typed accessor.

KindItems ==
    { <<null>>, <<undefined>>, <<bool_false>>, <<bool_true>>,
      <<0>>, <<23>>, <<24, 255>>, <<25, 1, 0>>, <<26, 128, 0, 0, 0>>,
      <<27, 255, 255, 255, 255, 255, 255, 255, 255>>,
      <<32>>, <<56, 255>>, <<59, 128, 0, 0, 0, 0, 0, 0, 0>>,
      <<fp16, 126, 0>>, <<fp16, 0, 1>>, <<fp32, 63, 128, 0, 0>>,
      <<fp64, 63, 240, 0, 0, 0, 0, 0, 1>>,
      <<64>>, <<65, bool_true>>, <<66, fp16, 126>>,
      <<96>>, <<97, 97>>, <<98, null, 0>>,
      <<192, 0>>, <<193, null>>, <<216, 24, 65, 0>>, <<198, bool_false>>,
      <<128>>, <<129, 0>>, <<130, bool_false, null>> }

InitKind ==
    /\ buf \in KindItems
    /\ it = begin
    /\ view = NoView
    /\ ops = 0
    /\ debug \in BOOLEAN
    /\ ndebug = FALSE
    /\ call = Call("init", <<>>, <<>>, Ok(<<>>))

\* begin()->get<bool>()
KindGetBool ==
    /\ call' = Call("get_bool", buf, <<>>, get_bool(buf, it.data))
    /\ UNCHANGED <<debug, ndebug, buf, it, view, ops>>

\* begin()->get<T>(), T integral
KindGetInt ==
    /\ \E T \in IntTypes :
          call' = Call("get_int", buf, [T |-> T], get_int(T, buf, it.data))
    /\ UNCHANGED <<debug, ndebug, buf, it, view, ops>>

\* begin()->get<float>(), begin()->get<double>()
KindGetFloat ==
    /\ \E w \in FloatTypes :
          call' = Call("get_float", buf, [w |-> w], get_float(w, buf, it.data))
    /\ UNCHANGED <<debug, ndebug, buf, it, view, ops>>

\* begin()->get_tag()
KindGetTag ==
    /\ call' = Call("get_tag", buf, <<>>, get_tag(buf, it))
    /\ UNCHANGED <<debug, ndebug, buf, it, view, ops>>

\* begin()->get_bytes()
KindGetBytes ==
    /\ call' = Call("get_bytes", buf, <<>>, get_bytes(buf, it.data))
    /\ UNCHANGED <<debug, ndebug, buf, it, view, ops>>

\* begin()->get_string()
KindGetString ==
    /\ call' = Call("get_string", buf, <<>>, get_string(buf, it.data))
    /\ UNCHANGED <<debug, ndebug, buf, it, view, ops>>

\* begin()->get_array()
KindGetArray ==
    /\ call' = Call("get_array", buf, <<>>, get_array(buf, it))
    /\ UNCHANGED <<debug, ndebug, buf, it, view, ops>>

\* begin()->untag()
KindUntag ==
    /\ call' = Call("untag", buf, <<>>, untag(buf, it))
    /\ UNCHANGED <<debug, ndebug, buf, it, view, ops>>

NextKind ==
    \/ KindGetBool
    \/ KindGetInt
    \/ KindGetFloat
    \/ KindGetTag
    \/ KindGetBytes
    \/ KindGetString
    \/ KindGetArray
    \/ KindUntag

SpecKind == InitKind /\ [][NextKind]_vars

\* the kind of the item whose first byte is h
RefKind(h) ==
    IF h < 64 THEN "integer"
    ELSE IF h < 96 THEN "bytes"
    ELSE IF h < 128 THEN "text"
    ELSE IF h < 160 THEN "array"
    ELSE IF h < 192 THEN "map"
    ELSE IF h < 224 THEN "tag"
    ELSE IF h \in {244, 245} THEN "boolean"
    ELSE IF h = 246 THEN "null"
    ELSE IF h = 247 THEN "undefined"
    ELSE IF h \in {249, 250, 251} THEN "float"
    ELSE "other"

\* the kind each typed accessor expects
ExpectedKind ==
    [get_bool |-> "boolean", get_int |-> "integer", get_float |-> "float",
     get_tag |-> "tag", get_bytes |-> "bytes", get_string |-> "text",
     get_array |-> "array", untag |-> "tag"]

\* C15: for an item that is a null, undefined, boolean, integer, float, byte
\* string, text string, tag or array, every typed accessor (get<bool>,
\* get<integer>, get<float>, get_tag, get_bytes, get_string, get_array, untag)
\* that expects another kind raises WrongKind and returns no value.
C15_WrongKind ==
    (/\ call.op \in DOMAIN ExpectedKind
     /\ RefKind(call.pre[1]) \in {"null", "undefined", "boolean", "integer", "float",
                                  "bytes", "text", "tag", "array"}
     /\ ExpectedKind[call.op] # RefKind(call.pre[1]))
        => call.out = Err("WrongKind")

\* get<bool> on a byte string whose one payload byte is the code of true
C15_Witness ==
    /\ call.op = "get_bool"
    /\ call.pre = <<65, 245>>
    /\ call.out = Err("WrongKind")


\* ------------------------------------------------------------------------
\* Encoding of floating point values.

\* the tail of codec::encode(p, T v), sizeof v = w: the array b of w + 1
\* bytes starts with ih::fp32 whatever w is, and write_be(&b[1], &v) is given
\* the address of v, so it copies the bytes of that address (addr, as many
\* bytes as a pointer has) to b[1].., not the bytes of v.  A pointer wider
\* than v is written past the end of b, which is undefined: the call goes on
\* with the bytes of b, or the process is stopped.
write_address(w, addr) ==
    IF Len(addr) > w
    THEN {Ok(<<fp32>> \o SubSeq(addr, 1, w)), Err("Abort")}
    ELSE {Ok(<<fp32>> \o addr \o [i \in 1..(w - Len(addr)) |-> 0])}

\* codec::encode(p, T v), T float (w = 4) or double (w = 8): the outcomes
encode_float(w, v, addr) ==
    IF isnan(v) THEN {Ok(<<fp16, 126, 0>>)}
    ELSE IF isinf(v) THEN {Ok(<<fp16, IF Sign(v) = 0 THEN 124 ELSE 252, 0>>)}
    ELSE IF w = 8 /\ Representable(v) THEN write_address(4, addr)
    ELSE write_address(w, addr)

\* ------------------------------------------------------------------------
\* SpecFloat: one floating point item, written by push_back or supplied by
\* the caller (a codec constructed over existing bytes), and read by get<T>.

\* floats: 0, -0, 1, 1.5, the largest, the smallest, infinities, NaNs
FloatSamples ==
    { <<0, 0, 0, 0>>, <<128, 0, 0, 0>>, <<63, 128, 0, 0>>, <<63, 192, 0, 0>>,
      <<127, 127, 255, 255>>, <<0, 0, 0, 1>>, <<0, 128, 0, 0>>, <<191, 128, 0, 0>>,
      <<127, 128, 0, 0>>, <<255, 128, 0, 0>>,
      <<127, 192, 0, 0>>, <<127, 128, 0, 1>>, <<255, 192, 0, 0>> }

\* doubles: those floats widened, and 3.14159, 0.1, 1 + 2^-52, 1 + 2^-29,
\* 2^128, 2^-150, the largest, the smallest, a NaN only the low bits tell
DoubleSamples ==
    {Widen(f) : f \in FloatSamples} \cup
    { <<64, 9, 33, 249, 240, 27, 134, 110>>, <<63, 185, 153, 153, 153, 153, 153, 154>>,
      <<63, 240, 0, 0, 0, 0, 0, 1>>, <<63, 240, 0, 0, 16, 0, 0, 0>>,
      <<71, 240, 0, 0, 0, 0, 0, 0>>, <<54, 144, 0, 0, 0, 0, 0, 0>>,
      <<127, 239, 255, 255, 255, 255, 255, 255>>, <<0, 0, 0, 0, 0, 0, 0, 1>>,
      <<127, 240, 0, 0, 0, 0, 0, 1>> }

FloatValues(w) == IF w = 4 THEN FloatSamples ELSE DoubleSamples

\* addresses of a local variable, of 8 and of 4 bytes
Addresses == {<<0, 0, 127, 255, 200, 16, 32, 8>>, <<255, 240, 16, 32>>}

InitFloat ==
    /\ buf = <<>>
    /\ it = begin
    /\ view = NoView
    /\ ops = 0
    /\ debug \in BOOLEAN
    /\ ndebug = FALSE
    /\ call = Call("init", <<>>, <<>>, Ok(<<>>))

\* codec::push_back(v) with one float or double v on the empty codec
FloatPushBack ==
    /\ ~Aborted
    /\ buf = <<>>
    /\ \E w \in FloatTypes : \E v \in FloatValues(w) : \E addr \in Addresses :
       \E r \in encode_float(w, v, addr) :
          /\ buf' = IF IsOk(r) THEN buf \o r.v ELSE buf
          /\ call' = Call("push_back_float", buf, [w |-> w, v |-> v],
                          IF IsOk(r) THEN Ok(<<>>) ELSE r)
    /\ UNCHANGED <<debug, ndebug, it, view, ops>>

\* codec(S &s) over storage that already holds one floating point item: every
\* half float, and the sampled floats and doubles
FloatOver ==
    /\ ~Aborted
    /\ buf = <<>>
    /\ \E x \in {<<fp16, h, l>> : h \in Byte, l \in Byte}
             \cup {<<fp32>> \o f : f \in FloatSamples}
             \cup {<<fp64>> \o d : d \in DoubleSamples} :
          /\ buf' = x
          /\ call' = Call("codec", buf, <<>>, Ok(<<>>))
    /\ UNCHANGED <<debug, ndebug, it, view, ops>>

\* begin()->get<float>(), begin()->get<double>()
GetFloat ==
    /\ ~Aborted
    /\ buf # <<>>
    /\ \E w \in FloatTypes :
          call' = Call("get_float", buf, [w |-> w], get_float(w, buf, it.data))
    /\ UNCHANGED <<debug, ndebug, buf, it, view, ops>>

NextFloat == FloatPushBack \/ FloatOver \/ GetFloat \/ Clear

SpecFloat == InitFloat /\ [][NextFloat]_vars

\* the finite value v of w bytes as a double
AsDouble(w, v) == IF w = 4 THEN Widen(v) ELSE v

\* C16: push_back of a finite double that is not the value of any float
\* appends 9 bytes, the fp64 head byte and the 8 bytes of the value; push_back
\* of a finite float, or of a finite double that is the value of a float,
\* appends 5 bytes, the fp32 head byte and the 4 bytes of that float; in both
\* cases get<double> of the item returns the value pushed.
C16_FloatWidth ==
    (/\ call.op = "push_back_float"
     /\ ~isnan(call.arg.v)
     /\ ~isinf(call.arg.v)) =>
        LET w == call.arg.w
            v == call.arg.v
        IN  /\ IsOk(call.out)
            /\ IF w = 8 /\ ~Representable(v)
               THEN buf = <<251>> \o v
               ELSE buf = <<250>> \o (IF w = 4 THEN v ELSE Narrow(v))
            /\ get_float(8, buf, 1) = Ok(AsDouble(w, v))

\* C17: push_back of a NaN, of +infinity and of -infinity appends f9 7e 00,
\* f9 7c 00 and f9 fc 00; get<float> and get<double> of a half float item
\* return a NaN, +infinity and -infinity for these three payloads, and raise
\* UnsupportedFeature for each of the other two-byte payloads.
C17_HalfFloat ==
    /\ call.op = "push_back_float" =>
          /\ isnan(call.arg.v) => (IsOk(call.out) /\ buf = <<249, 126, 0>>)
          /\ isinf(call.arg.v) =>
                (IsOk(call.out) /\ buf = <<249, IF call.arg.v[1] < 128 THEN 124 ELSE 252, 0>>)
    /\ (call.op = "get_float" /\ buf[1] = 249) =>
          LET h == buf[2]
              l == buf[3]
              w == call.arg.w
          IN  IF l = 0 /\ h = 126
              THEN IsOk(call.out) /\ Len(call.out.v) = w /\ isnan(call.out.v)
              ELSE IF l = 0 /\ h \in {124, 252}
              THEN /\ IsOk(call.out)
                   /\ Len(call.out.v) = w
                   /\ isinf(call.out.v)
                   /\ (call.out.v[1] >= 128) = (h = 252)
              ELSE call.out = Err("UnsupportedFeature")

\* get<double> of the half float item f9 7e 01
C17_Witness ==
    /\ call.op = "get_float"
    /\ buf = <<249, 126, 1>>
    /\ call.arg.w = 8
    /\ call.out = Err("UnsupportedFeature")


\* ------------------------------------------------------------------------
\* Claims about type().

\* the size class of the integer v: the first of int32, uint32, int64, uint64
\* whose range holds v
RefIntType(v) ==
    LET m == v.mag
        below31 == m[1] = 0 /\ m[2] = 0 /\ m[3] = 0 /\ m[4] = 0 /\ m[5] < 128
        below32 == m[1] = 0 /\ m[2] = 0 /\ m[3] = 0 /\ m[4] = 0
        below63 == m[1] < 128
    IN  IF below31 THEN "int32"
        ELSE IF ~v.neg /\ below32 THEN "uint32"
        ELSE IF below63 THEN "int64"
        ELSE "uint64"

\* C18: for every integer v written by push_back, type() of the item is int32
\* when -2^31 <= v <= 2^31-1, uint32 when 2^31 <= v <= 2^32-1, int64 when v
\* otherwise lies in -2^63..2^63-1, and uint64 when v > 2^63-1.
C18_IntType ==
    (call.op = "type" /\ call.arg.op = "push_back_int") =>
        call.out = Ok(RefIntType(ValueOf(call.arg.arg.T, call.arg.arg.b)))

\* type() of the item written by push_back(uint32_t(0x80000000))
C18_Witness ==
    /\ call.op = "type"
    /\ call.arg.op = "push_back_int"
    /\ call.arg.arg.T = [signed |-> FALSE, w |-> 4]
    /\ call.arg.arg.b = <<128, 0, 0, 0>>
    /\ call.out = Ok("uint32")


\* C19: a successful codec push_back of k values leaves the bytes the buffer
\* held where they were and appends the encodings of the k values in argument
\* order; the top-level items the buffer held keep their indices and spans, and
\* the k values are the last k top-level items.
C19_PushBackAppends ==
    (call.op = "push_back" /\ IsOk(call.out)) =>
        LET pre == call.pre
            vs == call.arg
            k == Len(vs)
            n == RefCount(pre)
            enc(j) == encode_sequence(SubSeq(vs, 1, j)).bytes
        IN  /\ Len(buf) = Len(pre) + Len(enc(k))
            /\ \A i \in 1..Len(pre) : buf[i] = pre[i]
            /\ SubSeq(buf, Len(pre) + 1, Len(buf)) = enc(k)
            /\ WellFormed(pre) =>
                  /\ RefCount(buf) = n + k
                  /\ \A i \in 0..(n - 1) :
                        /\ RefSkip(buf, 1, i) = RefSkip(pre, 1, i)
                        /\ ItemSpan(buf, i) = ItemSpan(pre, i)
                  /\ \A j \in 1..k :
                        /\ RefSkip(buf, 1, n + j - 1) = Len(pre) + 1 + Len(enc(j - 1))
                        /\ ItemSpan(buf, n + j - 1) = encode(vs[j]).bytes

\* two values pushed after three items, one of them an array
C19_Witness ==
    /\ call.op = "push_back"
    /\ IsOk(call.out)
    /\ RefCount(call.pre) = 3
    /\ Len(call.arg) = 2
    /\ RefCount(buf) = 5
    /\ ItemSpan(buf, 4) = <<97, 97>>


\* ------------------------------------------------------------------------
\* SpecComposite: one map or array pushed on the empty codec.

\* keys and values that are not composite
Scalars == {IntV(0), IntV(24), Null, Text(<<97>>)}

\* cbor::map of the pairs ps (a sequence of <<key, value>>)
MapOf(ps) == Map([i \in 1..(2 * Len(ps)) |-> ps[(i + 1) \div 2][2 - (i % 2)]])

\* all key/value pairs of scalars, in every order, equal keys included
Pairs == Scalars \X Scalars

\* maps of at most two pairs of scalars
SmallMaps == {MapOf(<<>>)} \cup {MapOf(<<p>>) : p \in Pairs}
                 \cup {MapOf(<<p, q>>) : p \in Pairs, q \in Pairs}

\* maps and arrays that hold maps and arrays, and a map of InlineMax + 1 pairs
Composites ==
    SmallMaps
    \cup {MapOf(<<<<IntV(24), m>>, <<Text(<<97>>), IntV(0)>>>>) : m \in {MapOf(<<p>>) : p \in Pairs}}
    \cup {MapOf(<<<<m, Arr(<<m, Null>>)>>>>) : m \in {MapOf(<<p>>) : p \in Pairs}}
    \cup {Arr(<<m, IntV(0), Arr(<<m>>)>>) : m \in {MapOf(<<p>>) : p \in Pairs}}
    \cup {Arr(<<>>), Arr(<<Arr(<<>>), MapOf(<<>>)>>),
          MapOf([i \in 1..(InlineMax + 1) |-> <<IntV(InlineMax + 1 - i), Null>>]),
          MapOf(<<<<IntV(0), Tagged(UINT16_MAX, Null)>>>>)}

InitComposite ==
    /\ buf = <<>>
    /\ it = begin
    /\ view = NoView
    /\ ops = 0
    /\ debug \in BOOLEAN
    /\ ndebug = FALSE
    /\ call = Call("init", <<>>, <<>>, Ok(<<>>))

\* codec.push_back(v) with one map or array v on the empty codec
CompositePushBack ==
    /\ buf = <<>>
    /\ \E v \in Composites : \E r \in {encode_sequence(<<v>>)} :
          /\ buf' = buf \o r.bytes
          /\ call' = Call("push_composite", buf, v, EncodeResult(r))
    /\ UNCHANGED <<debug, ndebug, it, view, ops>>

NextComposite == CompositePushBack \/ Clear

SpecComposite == InitComposite /\ [][NextComposite]_vars

\* the position after the encoding of v, should it start at p of b; 0 if b
\* does not hold it there.  For a map the items are key1, value1, key2, ...
RECURSIVE RefHolds(_, _, _), RefHoldsAll(_, _, _)
RefHolds(v, b, p) ==
    IF p < 1 \/ p > Len(b) \/ RefHeadLen(b, p) = 0 THEN 0
    ELSE LET m == b[p] \div 32
             a == RefArg(b, p)
             q == p + RefHeadLen(b, p)
         IN  CASE v.k = "int" ->
                    IF m = posint /\ U64of(a) = v.a THEN q ELSE 0
               [] v.k = "null" -> IF b[p] = 246 THEN q ELSE 0
               [] v.k = "text" ->
                    IF m = utf8 /\ a = Len(v.items) /\ q + a <= Len(b) + 1
                           /\ SubSeq(b, q, q + a - 1) = v.items
                    THEN q + a ELSE 0
               [] v.k = "array" ->
                    IF m = array /\ a = Len(v.items) THEN RefHoldsAll(v.items, b, q) ELSE 0
               [] v.k = "map" ->
                    IF m = map /\ 2 * a = Len(v.items) THEN RefHoldsAll(v.items, b, q) ELSE 0
               [] OTHER -> 0

RefHoldsAll(vs, b, p) ==
    IF vs = <<>> THEN p
    ELSE LET e == RefHolds(Head(vs), b, p)
         IN  IF e = 0 THEN 0 ELSE RefHoldsAll(Tail(vs), b, e)

\* no item of v at any depth is tagged
RECURSIVE Untagged(_)
Untagged(v) ==
    /\ v.k # "tagged"
    /\ v.k \in {"array", "map"} => \A i \in 1..Len(v.items) : Untagged(v.items[i])

\* C20: a map of k pairs is written as a map head with argument k followed by
\* key1, value1, ..., keyk, valuek in the order given, equal keys kept, and an
\* array of n values as an array head with argument n followed by the n
\* values in order, at every depth.
C20_Composite ==
    (call.op = "push_composite" /\ Untagged(call.arg)) =>
        /\ IsOk(call.out)
        /\ RefHolds(call.arg, buf, 1) = Len(buf) + 1

\* a map of two pairs with one key, the second pair before a lower key would go
C20_Witness ==
    /\ call.op = "push_composite"
    /\ call.arg = MapOf(<<<<IntV(24), Null>>, <<IntV(24), IntV(0)>>>>)
    /\ buf = <<162, 24, 24, 246, 24, 24, 0>>


\* C21: a step to the next sibling leaves the cursor's scope id (cont_) as it
\* was and adds 1 to its index (idx_), whatever the item stepped over is, an
\* array or a tagged item included; entering a container (untag, the begin()
\* of an array view) adds 1 to the scope id and sets the index to 0.
C21_SiblingScope ==
    /\ (call.op = "next" /\ IsOk(call.out) /\ RefMapFree(buf, call.arg.data, 1)) =>
          /\ it.cont = call.arg.cont
          /\ it.idx = call.arg.idx + 1
    /\ (call.op \in {"untag", "array_begin"} /\ IsOk(call.out)) =>
          /\ it.cont = call.arg.cont + 1
          /\ it.idx = 0


\* ------------------------------------------------------------------------
\* SpecRewrite: set_ih_arg on an item head that has bytes before and after it.

\* the bytes before and after the head
Surroundings == {<<>>, <<0>>, <<24, 255>>, <<97, 97, 130>>}

\* item heads of every major type and every size, shortest or not
OldHeads ==
    {<<make_byte(m, a)>> : m \in Majors, a \in {0, 23}}
    \cup UNION {{<<make_byte(m, 24 + j)>> \o x : x \in {[i \in 1..(2 ^ j) |-> 0],
                                                     [i \in 1..(2 ^ j) |-> 255],
                                                     [i \in 1..(2 ^ j) |-> i]}} :
                    m \in Majors, j \in 0..3}

\* the new arguments: both sides of every boundary of ih::make
NewArgs ==
    {U64of(0), U64of(23), U64of(24), UINT8_MAX, U64of(256), UINT16_MAX, U64of(65536),
     UINT32_MAX, <<0, 0, 0, 1, 0, 0, 0, 0>>, UINT64_MAX}

InitRewrite ==
    /\ \E x \in Surroundings : \E h \in OldHeads : \E y \in Surroundings :
          /\ buf = x \o h \o y
          /\ it = It(Len(x) + 1, 0, 0)
    /\ view = NoView
    /\ ops = 0
    /\ debug \in BOOLEAN
    /\ ndebug = FALSE
    /\ call = Call("init", <<>>, <<>>, Ok(<<>>))

\* set_ih_arg({it.data_, size of the head}, a)
SetIhArg ==
    /\ \E a \in NewArgs : \E h \in {get_ih_size(buf, it.data)} :
          /\ IsOk(h)
          /\ \E r \in {set_ih_arg(buf, it.data, h.v, a)} :
                /\ buf' = r.buf
                /\ call' = Call("set_ih_arg", buf, [p |-> it.data, a |-> a],
                                Ok([it |-> r.it, sz |-> r.sz]))
    /\ UNCHANGED <<debug, ndebug, it, view, ops>>

NextRewrite == SetIhArg

SpecRewrite == InitRewrite /\ [][NextRewrite]_vars

\* C22: set_ih_arg with argument a keeps the major type, writes the shortest
\* head of a where the old head was, changes the length of the buffer by the
\* new head's length less the old head's, and leaves the bytes before the head
\* and the bytes after the old head as they were and in their order.
C22_HeadRewrite ==
    call.op = "set_ih_arg" =>
        LET pre == call.pre
            p == call.arg.p
            a == call.arg.a
            oh == RefHeadLen(pre, p)
            nh == ShortestSize(a)
        IN  /\ buf[p] \div 32 = pre[p] \div 32
            /\ IF nh = 1 THEN U64of(buf[p] % 32) = a
               ELSE /\ buf[p] % 32 = (CASE nh = 2 -> 24 [] nh = 3 -> 25 [] nh = 5 -> 26
                                        [] OTHER -> 27)
                    /\ ZeroExt(SubSeq(buf, p + 1, p + nh - 1)) = a
            /\ Len(buf) = Len(pre) + nh - oh
            /\ SubSeq(buf, 1, p - 1) = SubSeq(pre, 1, p - 1)
            /\ SubSeq(buf, p + nh, Len(buf)) = SubSeq(pre, p + oh, Len(pre))
            /\ call.out = Ok([it |-> p, sz |-> nh])

\* a head of 9 bytes rewritten to 2 bytes, with bytes before and after it
C22_Witness ==
    /\ call.op = "set_ih_arg"
    /\ call.arg.p = 3
    /\ call.arg.a = U64of(24)
    /\ Len(call.pre) = 14
    /\ buf = <<24, 255, 152, 24, 97, 97, 130>>


\* ------------------------------------------------------------------------
\* SpecDecode: a codec over storage that holds one head byte, any of the 256,
\* and eight more bytes, read by the head decoders and by the accessors that
\* ask for the argument.

\* the eight bytes after the head byte
ArgBytes ==
    {[i \in 1..8 |-> 0], [i \in 1..8 |-> 255], [i \in 1..8 |-> i],
     <<0, 0, 0, 0, 0, 0, 0, 3>>, <<255, 255, 255, 255, 255, 255, 255, 246>>,
     <<2, 0, 0, 0, 0, 0, 0, 0>>}

InitDecode ==
    /\ buf \in {<<h>> \o x : h \in Byte, x \in ArgBytes}
    /\ it = begin
    /\ view = NoView
    /\ ops = 0
    /\ debug \in BOOLEAN
    /\ ndebug = FALSE
    /\ call = Call("init", <<>>, <<>>, Ok(<<>>))

\* ih::get_ih_size, ih::get_arg and ih::get_size of the head at begin()
DecodeSizes ==
    /\ call' = Call("sizes", buf, <<>>,
                    Ok([ih_size |-> get_ih_size(buf, it.data),
                        arg |-> get_arg(buf, it.data),
                        size |-> get_size_u64(buf, it.data)]))
    /\ UNCHANGED <<debug, ndebug, buf, it, view, ops>>

\* begin()->get_bytes()
DecodeGetBytes ==
    /\ call' = Call("get_bytes", buf, <<>>, get_bytes(buf, it.data))
    /\ UNCHANGED <<debug, ndebug, buf, it, view, ops>>

\* begin()->get_string()
DecodeGetString ==
    /\ call' = Call("get_string", buf, <<>>, get_string(buf, it.data))
    /\ UNCHANGED <<debug, ndebug, buf, it, view, ops>>

\* begin()->get_array().size()
DecodeArraySize ==
    /\ \E a \in {get_array(buf, it)} :
          call' = Call("array_size", buf, <<>>,
                       IF IsOk(a) THEN array_size(buf, a.v) ELSE a)
    /\ UNCHANGED <<debug, ndebug, buf, it, view, ops>>

NextDecode == DecodeSizes \/ DecodeGetBytes \/ DecodeGetString \/ DecodeArraySize

SpecDecode == InitDecode /\ [][NextDecode]_vars

\* the argument of the head of b as 8 bytes, for an additional-info up to 27
RefArg64(b) ==
    LET ai == b[1] % 32
    IN  IF ai <= 23 THEN <<0, 0, 0, 0, 0, 0, 0, ai>>
        ELSE [i \in 1..8 |-> IF i <= 8 - RefArgWidth(b, 1) THEN 0
                             ELSE b[1 + i - (8 - RefArgWidth(b, 1))]]

\* C23: for a head byte with additional-info 28, 29 or 30 the head size, the
\* argument and the item size raise MalformedHead; with additional-info 31
\* the head size is 1 and the argument raises UnsupportedFeature, also when
\* get_bytes, get_string or an array view's size() asks for it; with
\* additional-info 0..27 the head size is 1, 2, 3, 5 or 9 by the marker and the
\* item size is the head size plus the argument for a byte or text string and
\* the head size for every other major type.
C23_HeadMarkers ==
    LET ai == call.pre[1] % 32
        m == call.pre[1] \div 32
        hs == 1 + RefArgWidth(call.pre, 1)
        a == RefArg64(call.pre)
    IN  /\ (call.op = "sizes" /\ ai \in 28..30) =>
              /\ call.out.v.ih_size = Err("MalformedHead")
              /\ call.out.v.arg = Err("MalformedHead")
              /\ call.out.v.size = Err("MalformedHead")
        /\ (call.op = "sizes" /\ ai = 31) =>
              /\ call.out.v.ih_size = Ok(1)
              /\ call.out.v.arg = Err("UnsupportedFeature")
        /\ (call.op = "get_bytes" /\ ai = 31 /\ m = bytes) =>
              call.out = Err("UnsupportedFeature")
        /\ (call.op = "get_string" /\ ai = 31 /\ m = utf8) =>
              call.out = Err("UnsupportedFeature")
        /\ (call.op = "array_size" /\ ai = 31 /\ m = array) =>
              call.out = Err("UnsupportedFeature")
        /\ (call.op = "sizes" /\ ai <= 27) =>
              /\ call.out.v.ih_size = Ok(hs)
              /\ call.out.v.arg = Ok(a)
              /\ IsOk(call.out.v.size)
              /\ IF m \in {bytes, utf8}
                 THEN \* hs + a, which a 64-bit sum below a is not
                      /\ call.out.v.size.v = AddU64(a, hs)
                      /\ LeU(a, call.out.v.size.v)
                 ELSE call.out.v.size.v = U64of(hs)


\* C24: in a build with the debug assertions, equality, ordering and
\* subtraction of two cursors of one codec whose scope ids differ each trip
\* an assertion and return no result.
C24_CrossScopeCompare ==
    (/\ call.op \in {"equal", "order", "difference"}
     /\ debug
     /\ call.arg.l.cont # call.arg.r.cont)
        => call.out = Err("Abort")


\* the integral type each integer size class of type() names
TypeNamed ==
    [int32 |-> [signed |-> TRUE, w |-> 4], uint32 |-> [signed |-> FALSE, w |-> 4],
     int64 |-> [signed |-> TRUE, w |-> 8], uint64 |-> [signed |-> FALSE, w |-> 8]]

\* C25: for a posint or negint item with a head of any size and any argument,
\* when type() reports int32, uint32, int64 or uint64, get<T> for the T of
\* that name succeeds and returns the value of the item (the argument a of a
\* posint, -1 - a of a negint).
C25_TypeAgreesWithGet ==
    (/\ call.op = "type"
     /\ buf[1] \div 32 \in {posint, negint}
     /\ IsOk(call.out)
     /\ call.out.v \in DOMAIN TypeNamed)
        => get_int(TypeNamed[call.out.v], buf, 1)
              = Ok([neg |-> buf[1] \div 32 = negint, mag |-> RefArg64(buf)])


\* ------------------------------------------------------------------------
\* Navigation over storage that need not hold well-formed items: a codec
\* constructed over bytes that came from outside.

\* one item, well-formed or not: heads cut before their argument bytes,
\* strings that declare more bytes than follow, strings whose size wraps in
\* uint64_t, arrays that declare more children than follow
Items ==
    {<<0>>, <<24>>, <<25, 0>>, <<26, 0, 0>>, <<27, 0, 0, 0, 0>>,
     <<64>>, <<65>>, <<65, 97>>, <<88, 5>>, <<88, 5, 97>>, <<89, 1>>,
     <<98, 97>>, <<97, 97>>, <<120, 3, 97, 97>>,
     <<91, 255, 255, 255, 255, 255, 255, 255, 247>>,
     <<91, 255, 255, 255, 255, 255, 255, 255, 246>>,
     <<123, 255, 255, 255, 255, 255, 255, 255, 240>>,
     <<128>>, <<129>>, <<129, 0>>, <<130, 0>>, <<130, 0, 1>>, <<130, 65>>, <<131, 0>>,
     <<152, 3, 0>>, <<153, 0>>, <<129, 129>>, <<193>>, <<193, 0>>, <<193, 88, 5>>}

\* the storage: up to two integers, then one item
Storages == {f \o x : f \in {<<>>, <<0>>, <<1, 2>>}, x \in Items}

InitBounds ==
    /\ buf \in Storages
    /\ it = begin
    /\ view = NoView
    /\ ops = 0
    /\ debug \in BOOLEAN
    /\ ndebug \in (IF debug THEN {FALSE} ELSE BOOLEAN)
    /\ call = Call("init", <<>>, <<>>, Ok(<<>>))

\* c.size()
BoundsSize ==
    /\ call' = Call("size", buf, <<>>, codec_size(buf))
    /\ UNCHANGED <<debug, ndebug, buf, it, view, ops>>

\* c[k] for k < c.size()
BoundsIndex ==
    /\ \E k \in 0..MaxItems : \E n \in {codec_size(buf)} :
          /\ IsOk(n)
          /\ k < n.v
          /\ call' = Call("index", buf, k, codec_index(buf, k))
    /\ UNCHANGED <<debug, ndebug, buf, it, view, ops>>

\* ++it of a cursor that is at an item
BoundsAdvance ==
    /\ it.data \in 1..Len(buf)
    /\ it.idx < MaxItems
    /\ \E r \in {codec_next(buf, it, 1)} :
          /\ call' = Call("advance", buf, it, r)
          /\ it' = IF IsOk(r) /\ r.v.data \in 1..Len(buf) THEN r.v ELSE it
    /\ UNCHANGED <<debug, ndebug, buf, view, ops>>

\* it->get_array()[k] for k < it->get_array().size()
BoundsArrayIndex ==
    /\ it.data \in 1..Len(buf)
    /\ \E k \in 0..MaxItems : \E a \in {get_array(buf, it)} :
          /\ IsOk(a)
          /\ \E n \in {array_size(buf, a.v)} : IsOk(n) /\ k < n.v
          /\ call' = Call("array_index", buf, k, array_index(buf, a.v, k))
    /\ UNCHANGED <<debug, ndebug, buf, it, view, ops>>

\* it->get_bytes()
BoundsGetBytes ==
    /\ it.data \in 1..Len(buf)
    /\ call' = Call("get_bytes", buf, it, get_bytes(buf, it.data))
    /\ UNCHANGED <<debug, ndebug, buf, it, view, ops>>

\* it->get_string()
BoundsGetString ==
    /\ it.data \in 1..Len(buf)
    /\ call' = Call("get_string", buf, it, get_string(buf, it.data))
    /\ UNCHANGED <<debug, ndebug, buf, it, view, ops>>

NextBounds ==
    \/ BoundsSize
    \/ BoundsIndex
    \/ BoundsAdvance
    \/ BoundsArrayIndex
    \/ BoundsGetBytes
    \/ BoundsGetString

SpecBounds == InitBounds /\ [][NextBounds]_vars

\* C26: over any storage, well-formed or not, size(), indexing, advancing a
\* cursor and get_bytes/get_string either raise an error or yield only
\* cursors at offsets 0..size of the storage and views inside the storage
\* (never a read or a view outside it), and size() returns.
C26_InsideBuffer ==
    call.op \in {"size", "index", "advance", "array_index", "get_bytes", "get_string"}
        => /\ call.out.err \notin {"OutOfBounds", "NoReturn"}
           /\ (IsOk(call.out) /\ call.op \in {"index", "advance", "array_index"})
                 => call.out.v.data \in 1..(Len(buf) + 1)

====
